---- MODULE Spec2Model ----
(***************************************************************************)
(* A model of my-first-blockchain: the record codec (block.Serialize,      *)
(* serializeBlock), the hasher (calculateHash), the miner (proofOfWork,    *)
(* generateBlock) and the two chain validators (isChainValidCached,        *)
(* isChainValidConcurrent) of main.go.                                     *)
(*                                                                         *)
(* SHA-256 is modelled by a small deterministic two-lane weighted sum of   *)
(* the serialized bytes, expanded to HashSize bytes.  Everything else      *)
(* (byte layout, nonce search, cache keyed by Index, worker fan-out) is    *)
(* translated from the source statement by statement.                      *)
(***************************************************************************)
EXTENDS Integers, Sequences, FiniteSets, Bags, TLC

\* ------------------------------------------------------------------------
\* Bounds of the model
\* ------------------------------------------------------------------------

\* longest chain that is built
MaxChain == 3
\* largest in-range difficulty that is mined
MaxDifficulty == 2
\* nonce at which a search that has not succeeded is cut off
MaxNonce == 400
\* number of field edits a tampering session applies to the chain
MaxTampers == 2
\* chain length from which isChainValidConcurrent fans out
\* (1000 in the source, scaled to the chains the model builds)
ConcurrentThreshold == 3
\* payload length above which calculateHash streams
\* (64*1024 in the source, scaled to the payloads the model hashes)
StreamThreshold == 2
\* total number of Data and PrevHash bytes of a record given to Serialize
MaxFieldBytes == 3
\* nonce attempts between two polls of the cancellation signal (1000 in the
\* documentation, scaled)
CancelCheckInterval == 4
\* length of the chains handed to the validators ready-made
LongChain == 6
\* number of times the caller validates one chain
MaxRuns == 2
\* largest worker_count given to the cancellable validator
MaxWorkerCount == 2

\* ------------------------------------------------------------------------
\* Program constants
\* ------------------------------------------------------------------------

\* sha256.Size: the digest is 32 bytes, 64 hexadecimal digits
HashSize == 32
\* largest difficulty the documentation accepts
MaxSupportedDifficulty == 64
\* workers of the concurrent validator
maxWorkers == 4

\* ------------------------------------------------------------------------
\* Go integer arithmetic
\* ------------------------------------------------------------------------

\* Go's / on ints truncates toward zero
GoDiv(a, b) == IF a >= 0 THEN a \div b ELSE -((-a) \div b)

\* Go's % on ints takes the sign of the dividend
GoMod(a, b) == a - b * GoDiv(a, b)

\* binary.Write(buf, binary.LittleEndian, intN(v)): w bytes, least
\* significant first, two's complement for negative v
RECURSIVE LittleEndian(_, _)
LittleEndian(v, w) ==
    IF w = 0 THEN <<>>
    ELSE <<v % 256>> \o LittleEndian(v \div 256, w - 1)

\* ------------------------------------------------------------------------
\* Codec
\* ------------------------------------------------------------------------

\* the flag byte written after the version byte
FlagByte(block) == IF block.explicitlyInitialized THEN 255 ELSE 0

\* Serialize without the two length prefixes
SerializeNoLengths(block) ==
    <<1>> \o <<FlagByte(block)>>
          \o LittleEndian(block.Index, 8)
          \o LittleEndian(block.Timestamp, 8)
          \o LittleEndian(block.Nonce, 8)
          \o block.Data
          \o block.PrevHash

\* Serialize writing Nonce before Timestamp
SerializeNonceFirst(block) ==
    <<1>> \o <<FlagByte(block)>>
          \o LittleEndian(block.Index, 8)
          \o LittleEndian(block.Nonce, 8)
          \o LittleEndian(block.Timestamp, 8)
          \o LittleEndian(Len(block.Data), 4) \o block.Data
          \o LittleEndian(Len(block.PrevHash), 4) \o block.PrevHash

\* block.Serialize (package block)
Serialize(block) ==
    <<1>> \o <<FlagByte(block)>>
          \o LittleEndian(block.Index, 8)
          \o LittleEndian(block.Timestamp, 8)
          \o LittleEndian(block.Nonce, 8)
          \o LittleEndian(Len(block.Data), 4) \o block.Data
          \o LittleEndian(Len(block.PrevHash), 4) \o block.PrevHash

\* serializeBlock (package main): the same writes into a buffer that was
\* taken from the pool and reset, returned as a copy
serializeBlock(block) ==
    LET buf0 == <<>>
        buf1 == buf0 \o <<1>>
        buf2 == buf1 \o <<FlagByte(block)>>
        buf3 == buf2 \o LittleEndian(block.Index, 8)
        buf4 == buf3 \o LittleEndian(block.Timestamp, 8)
        buf5 == buf4 \o LittleEndian(block.Nonce, 8)
        buf6 == buf5 \o LittleEndian(Len(block.Data), 4) \o block.Data
        buf7 == buf6 \o LittleEndian(Len(block.PrevHash), 4) \o block.PrevHash
    IN  buf7

\* ------------------------------------------------------------------------
\* Hasher
\* ------------------------------------------------------------------------

\* one lane of the digest: the position-weighted sum of the bytes modulo m
\* (BagCardinality adds up the values of the function it is given)
Lane(bytes, a, b, m) ==
    IF Len(bytes) = 0 THEN a % m
    ELSE (a + BagCardinality([k \in 1..Len(bytes) |->
                (bytes[k] + 1) * (((k * k * a + k * b) % m) + 1)])) % m

\* sha256.Sum256 / hasher.Sum: HashSize bytes determined by all input bytes
Sha256(bytes) ==
    LET h1 == Lane(bytes, 7, 31, 46337)
        h2 == Lane(bytes, 11, 131, 32749)
        w  == <<h1 % 256, h1 \div 256, h2 % 256, h2 \div 256>>
    IN  [k \in 1..HashSize |-> w[((k - 1) % 4) + 1]]

\* the hasher.Write calls without the length of Data
StreamFedNoDataLength(block) ==
    <<1>> \o <<FlagByte(block)>>
          \o LittleEndian(block.Index, 8)
          \o LittleEndian(block.Timestamp, 8)
          \o LittleEndian(block.Nonce, 8)
          \o block.Data
          \o LittleEndian(Len(block.PrevHash), 4) \o block.PrevHash

\* the bytes calculateHashStreaming gives to hasher.Write, in order: the
\* header, the fixed-width fields (PutUint64 of uint64(v)), then each length
\* (PutUint32 of uint32(len)) and field
StreamFed(block) ==
    <<1>> \o <<FlagByte(block)>>
          \o LittleEndian(block.Index, 8)
          \o LittleEndian(block.Timestamp, 8)
          \o LittleEndian(block.Nonce, 8)
          \o LittleEndian(Len(block.Data), 4) \o block.Data
          \o LittleEndian(Len(block.PrevHash), 4) \o block.PrevHash

\* calculateHashStreaming
calculateHashStreaming(block) == Sha256(StreamFed(block))

\* calculateHash
calculateHash(block) ==
    IF Len(block.Data) > StreamThreshold
    THEN calculateHashStreaming(block)
    ELSE Sha256(serializeBlock(block))

\* ------------------------------------------------------------------------
\* Miner
\* ------------------------------------------------------------------------

\* the acceptance test without the half-byte check of odd difficulties
PowCheckNoNibble(hash, difficulty) ==
    LET n       == GoDiv(difficulty, 2)
        scanned == IF n > Len(hash) THEN Len(hash) ELSE n
        nonzero == \E i \in 1..scanned : hash[i] # 0
    IN  IF nonzero THEN "invalid"
        ELSE IF n > Len(hash) THEN "panic"
        ELSE "valid"

\* the acceptance test with the byte loop running one byte too far
PowCheckOffByOne(hash, difficulty) ==
    LET n       == GoDiv(difficulty, 2) + 1
        scanned == IF n > Len(hash) THEN Len(hash) ELSE n
        nonzero == \E i \in 1..scanned : hash[i] # 0
    IN  IF nonzero THEN "invalid"
        ELSE IF n > Len(hash) THEN "panic"
        ELSE "valid"

\* the acceptance test looking at the low half of the byte after the zero
\* bytes
PowCheckLowNibble(hash, difficulty) ==
    LET n       == GoDiv(difficulty, 2)
        scanned == IF n > Len(hash) THEN Len(hash) ELSE n
        nonzero == \E i \in 1..scanned : hash[i] # 0
    IN  IF nonzero THEN "invalid"
        ELSE IF n > Len(hash) THEN "panic"
        ELSE IF GoMod(difficulty, 2) = 1
             THEN IF n >= Len(hash) THEN "panic"
                  ELSE IF hash[n + 1] % 16 # 0 THEN "invalid" ELSE "valid"
        ELSE "valid"

\* the acceptance test of one iteration of proofOfWork, on hash[0..]:
\* difficulty/2 zero bytes, then a zero high nibble when difficulty is odd.
\* "panic" is an index out of range.
PowCheck(hash, difficulty) ==
    LET n       == GoDiv(difficulty, 2)
        scanned == IF n > Len(hash) THEN Len(hash) ELSE n
        nonzero == \E i \in 1..scanned : hash[i] # 0
    IN  IF nonzero THEN "invalid"
        ELSE IF n > Len(hash) THEN "panic"
        ELSE IF GoMod(difficulty, 2) = 1
             THEN IF n >= Len(hash) THEN "panic"
                  ELSE IF hash[n + 1] >= 16 THEN "invalid" ELSE "valid"
        ELSE "valid"

\* make([]byte, (difficulty+1)/2) panics on a negative length
TargetPanics(difficulty) == GoDiv(difficulty + 1, 2) < 0

\* ------------------------------------------------------------------------
\* Sequential validator
\* ------------------------------------------------------------------------

EmptyCache == [k \in {} |-> <<>>]

\* the loop of isChainValidCached with every lookup missing: both digests
\* of every pair are recomputed
RECURSIVE CachedLoopNoCache(_, _, _, _)
CachedLoopNoCache(c, i, hashCache, hashed) ==
    IF i > Len(c) THEN [ok |-> TRUE, hashed |-> hashed, at |-> 0]
    ELSE
      LET prevHash == calculateHash(c[i - 1])
          hashed1  == Append(hashed, i - 1)
      IN  IF c[i].PrevHash # prevHash
          THEN [ok |-> FALSE, hashed |-> hashed1, at |-> i]
          ELSE IF c[i].Hash # calculateHash(c[i])
          THEN [ok |-> FALSE, hashed |-> Append(hashed1, i), at |-> i]
          ELSE CachedLoopNoCache(c, i + 1, hashCache, Append(hashed1, i))

\* the loop of isChainValidCached from position i of the chain (chain[i] is
\* the source's chain[i-1]); hashCache is keyed by Index.  hashed lists the
\* positions given to calculateHash, at is the position where the loop
\* returned false (0 when it ran to the end).
RECURSIVE CachedLoop(_, _, _, _)
CachedLoop(c, i, hashCache, hashed) ==
    IF i > Len(c) THEN [ok |-> TRUE, hashed |-> hashed, at |-> 0]
    ELSE
      LET prevBlock == c[i - 1]
          currBlock == c[i]
          prevMiss  == prevBlock.Index \notin DOMAIN hashCache
          prevHash  == IF prevMiss THEN calculateHash(prevBlock)
                       ELSE hashCache[prevBlock.Index]
          cache1    == IF prevMiss THEN (prevBlock.Index :> prevHash) @@ hashCache
                       ELSE hashCache
          hashed1   == IF prevMiss THEN Append(hashed, i - 1) ELSE hashed
      IN  IF currBlock.PrevHash # prevHash
          THEN [ok |-> FALSE, hashed |-> hashed1, at |-> i]
          ELSE
            LET currMiss == currBlock.Index \notin DOMAIN cache1
                currHash == IF currMiss THEN calculateHash(currBlock)
                            ELSE cache1[currBlock.Index]
                cache2   == IF currMiss THEN (currBlock.Index :> currHash) @@ cache1
                            ELSE cache1
                hashed2  == IF currMiss THEN Append(hashed1, i) ELSE hashed1
            IN  IF currBlock.Hash # currHash
                THEN [ok |-> FALSE, hashed |-> hashed2, at |-> i]
                ELSE CachedLoop(c, i + 1, cache2, hashed2)

\* isChainValidCached hashing the first record before the loop
isChainValidCachedPrecomputing(c) ==
    IF Len(c) = 0 THEN [ok |-> TRUE, hashed |-> <<>>, at |-> 0]
    ELSE CachedLoop(c, 2, (c[1].Index :> calculateHash(c[1])), <<1>>)

\* isChainValidCached with a check of every mined record's Hash against a
\* target of one zero hexadecimal digit
isChainValidCachedCheckingTarget(c) ==
    IF Len(c) = 0 THEN [ok |-> TRUE, hashed |-> <<>>, at |-> 0]
    ELSE LET r == CachedLoop(c, 2, EmptyCache, <<>>)
         IN  [r EXCEPT !.ok = r.ok /\ \A i \in 2..Len(c) :
                                        Len(c[i].Hash) > 0 /\ c[i].Hash[1] < 16]

\* isChainValidCached comparing the first record's Hash with its digest
\* before the loop
isChainValidCachedCheckingFirst(c) ==
    IF Len(c) = 0 THEN [ok |-> TRUE, hashed |-> <<>>, at |-> 0]
    ELSE IF c[1].Hash # calculateHash(c[1])
    THEN [ok |-> FALSE, hashed |-> <<1>>, at |-> 1]
    ELSE CachedLoop(c, 2, EmptyCache, <<>>)

\* isChainValidCached
isChainValidCached(c) ==
    IF Len(c) = 0 THEN [ok |-> TRUE, hashed |-> <<>>, at |-> 0]
    ELSE CachedLoop(c, 2, EmptyCache, <<>>)

\* validateBlock, the worker body of isChainValidConcurrent, for the pair
\* at positions i-1, i
validateBlock(c, i) ==
    LET prevBlock == c[i - 1]
        currBlock == c[i]
        prevHash  == calculateHash(prevBlock)
        currHash  == calculateHash(currBlock)
    IN  currBlock.PrevHash = prevHash /\ currBlock.Hash = currHash

\* ------------------------------------------------------------------------
\* Inputs
\* ------------------------------------------------------------------------

\* "Genesis"
GenesisData == <<71, 101, 110, 101, 115, 105, 115>>

\* payloads handed to generateBlock: the empty payload and "B1"
Payloads == {<<>>, <<66, 49>>}

\* values of time.Now().Unix()
Timestamps == {1700000000}

\* difficulties passed to generateBlock: the mined range, and samples
\* below zero and above the supported maximum
Difficulties == (0..MaxDifficulty) \cup {-3, -1, MaxSupportedDifficulty + 1}

\* the difficulty is one the documentation accepts
InRange(d) == d \in 0..MaxSupportedDifficulty

\* the zero value of Block
ZeroBlock ==
    [Index |-> 0, Timestamp |-> 0, Data |-> <<>>, PrevHash |-> <<>>,
     Hash |-> <<>>, Nonce |-> 0, explicitlyInitialized |-> FALSE]

\* ------------------------------------------------------------------------
\* State
\* ------------------------------------------------------------------------

VARIABLES
    chain,      \* the caller's []*Block
    pc,         \* where the caller is
    pow,        \* the frame of generateBlock / proofOfWork
    tampers,    \* field edits applied so far
    victim,     \* position of the edited record, 0 before the first edit
    edits,      \* the fields edited, in order
    difficulties, \* the difficulties the chain was mined with
    preOk,      \* verdict of isChainValidCached just before the last edit
    seqVerdict, \* what isChainValidCached returned
    conc,       \* the frame of isChainValidConcurrent
    ser,        \* the two records given to Serialize and their bytes
    cancelled,  \* the cancellation signal of the running operation has fired
    mine,       \* the frame of the cancellable miner
    vctx,       \* the frame of the cancellable concurrent validator
    seqHashed,  \* the positions isChainValidCached gave to calculateHash
    prior,      \* the chain and the verdicts of the previous validation
    hsh,        \* the record given to calculateHash and what each path did
    pool,       \* bufferPool, its buffers and the callers of serializeBlock
    orig        \* the frame of the original program: IsChainValid, ProofOfWork

vars == <<chain, pc, pow, tampers, victim, edits, difficulties, preOk, seqVerdict,
          conc, ser, cancelled, mine, vctx, seqHashed, prior, hsh, pool, orig>>

\* the state of the cancellable operations
ctxVars == <<cancelled, mine, vctx, prior, hsh, pool, orig>>

NoPow ==
    [block |-> ZeroBlock, difficulty |-> 0, nonce |-> 0, hash |-> <<>>,
     calls |-> 0, outcome |-> "none"]

NoConc ==
    [next |-> 0, live |-> {}, sent |-> {}, results |-> <<>>, capacity |-> 0,
     received |-> 0, workers |-> 0, fanout |-> FALSE, verdict |-> "none",
     hashes |-> 0, collected |-> <<>>]

NoSer == [a |-> ZeroBlock, b |-> ZeroBlock, outA |-> <<>>, outB |-> <<>>, done |-> FALSE]

NoMine ==
    [block |-> ZeroBlock, difficulty |-> 0, nonce |-> 0, hash |-> <<>>,
     calls |-> 0, outcome |-> "none", expiredAtStart |-> FALSE,
     observed |-> FALSE]

NoVctx ==
    [workerCount |-> 0, total |-> 0, pending |-> {}, busy |-> <<>>,
     results |-> {}, received |-> 0, anyInvalid |-> FALSE, verdict |-> "none",
     observed |-> FALSE, expiredAtStart |-> FALSE]

NoPrior == [runs |-> 0, chain |-> <<>>, seq |-> "none", conc |-> "none"]

NoHsh ==
    [block |-> ZeroBlock, fed |-> <<>>, buf |-> <<>>, streamed |-> <<>>,
     buffered |-> <<>>, hash |-> <<>>, path |-> "none"]

NoPool == [bufs |-> <<>>, free |-> {}, callers |-> <<>>]

NoOrig ==
    [i |-> 0, verdict |-> "none", failed |-> "none", kind |-> "none",
     hash |-> <<>>, difficulty |-> 0, bytewise |-> "none", prefixed |-> "none",
     block |-> ZeroBlock, optimised |-> <<>>, original |-> <<>>]

Verdict(ok) == IF ok THEN "valid" ELSE "invalid"

Init ==
    /\ chain = <<>>
    /\ pc = "idle"
    /\ pow = NoPow
    /\ tampers = 0
    /\ victim = 0
    /\ edits = <<>>
    /\ difficulties = {}
    /\ preOk = "none"
    /\ seqVerdict = "none"
    /\ conc = NoConc
    /\ ser = NoSer
    /\ cancelled = FALSE
    /\ mine = NoMine
    /\ vctx = NoVctx
    /\ seqHashed = <<>>
    /\ prior = NoPrior
    /\ hsh = NoHsh
    /\ pool = NoPool
    /\ orig = NoOrig

\* ------------------------------------------------------------------------
\* Building the chain
\* ------------------------------------------------------------------------

\* newGenesisBlock leaving Hash unset
NewGenesisUnhashed(ts) ==
    /\ pc = "idle"
    /\ chain = <<>>
    /\ chain' = <<[ZeroBlock EXCEPT !.Index = 0, !.Timestamp = ts,
                                     !.Data = GenesisData, !.PrevHash = <<>>]>>
    /\ UNCHANGED <<pc, pow, tampers, victim, edits, difficulties, preOk, seqVerdict, seqHashed, conc, ser, ctxVars>>

\* newGenesisBlock, appended by main
NewGenesis(ts) ==
    /\ pc = "idle"
    /\ chain = <<>>
    /\ LET b == [ZeroBlock EXCEPT !.Index = 0, !.Timestamp = ts,
                                  !.Data = GenesisData, !.PrevHash = <<>>]
       IN  chain' = <<[b EXCEPT !.Hash = calculateHash(b)]>>
    /\ UNCHANGED <<pc, pow, tampers, victim, edits, difficulties, preOk, seqVerdict, seqHashed, conc, ser, ctxVars>>

\* generateBlock linking the new block to the predecessor's PrevHash
GenerateBlockStartWrongLink(data, ts, difficulty) ==
    /\ pc = "idle"
    /\ tampers = 0
    /\ Len(chain) >= 1
    /\ Len(chain) < MaxChain
    /\ LET prevBlock == chain[Len(chain)]
           newBlock  == [ZeroBlock EXCEPT !.Index = prevBlock.Index + 1,
                                          !.Timestamp = ts,
                                          !.Data = data,
                                          !.PrevHash = prevBlock.PrevHash]
       IN  /\ pow' = [block |-> newBlock, difficulty |-> difficulty, nonce |-> 0,
                      hash |-> <<>>, calls |-> 0,
                      outcome |-> IF GoDiv(difficulty + 1, 2) < 0 THEN "panic"
                                  ELSE "searching"]
           /\ pc' = IF GoDiv(difficulty + 1, 2) < 0 THEN "crashed" ELSE "pow"
    /\ difficulties' = difficulties \cup {difficulty}
    /\ UNCHANGED <<chain, tampers, victim, edits, preOk, seqVerdict, seqHashed, conc, ser, ctxVars>>

\* generateBlock up to the entry of the loop of proofOfWork
GenerateBlockStart(data, ts, difficulty) ==
    /\ pc = "idle"
    /\ tampers = 0
    /\ Len(chain) >= 1
    /\ Len(chain) < MaxChain
    /\ LET prevBlock == chain[Len(chain)]
           newBlock  == [ZeroBlock EXCEPT !.Index = prevBlock.Index + 1,
                                          !.Timestamp = ts,
                                          !.Data = data,
                                          !.PrevHash = prevBlock.Hash]
       IN  /\ pow' = [block |-> newBlock, difficulty |-> difficulty, nonce |-> 0,
                      hash |-> <<>>, calls |-> 0,
                      outcome |-> IF TargetPanics(difficulty) THEN "panic"
                                  ELSE "searching"]
           /\ pc' = IF TargetPanics(difficulty) THEN "crashed" ELSE "pow"
    /\ difficulties' = difficulties \cup {difficulty}
    /\ UNCHANGED <<chain, tampers, victim, edits, preOk, seqVerdict, seqHashed, conc, ser, ctxVars>>

\* the loop of proofOfWork stepping the nonce by two
PowIterateSkipping ==
    /\ pc = "pow"
    /\ pow.nonce < MaxNonce
    /\ LET block == [pow.block EXCEPT !.Nonce = pow.nonce]
           hash  == calculateHash(block)
           check == PowCheck(hash, pow.difficulty)
       IN  /\ pow' = [pow EXCEPT !.block = block,
                                 !.hash = hash,
                                 !.calls = @ + 1,
                                 !.nonce = IF check = "invalid" THEN @ + 2 ELSE @,
                                 !.outcome = CASE check = "valid" -> "success"
                                               [] check = "panic" -> "panic"
                                               [] OTHER -> "searching"]
           /\ pc' = CASE check = "valid" -> "powret"
                      [] check = "panic" -> "crashed"
                      [] OTHER -> "pow"
    /\ UNCHANGED <<chain, tampers, victim, edits, difficulties, preOk, seqVerdict, seqHashed, conc, ser, ctxVars>>

\* the loop of proofOfWork stamping the record anew at every attempt
PowIterateRestamping ==
    /\ pc = "pow"
    /\ pow.nonce < MaxNonce
    /\ LET block == [pow.block EXCEPT !.Nonce = pow.nonce,
                                      !.Timestamp = @ + pow.nonce]
           hash  == calculateHash(block)
           check == PowCheck(hash, pow.difficulty)
       IN  /\ pow' = [pow EXCEPT !.block = block,
                                 !.hash = hash,
                                 !.calls = @ + 1,
                                 !.nonce = IF check = "invalid" THEN @ + 1 ELSE @,
                                 !.outcome = CASE check = "valid" -> "success"
                                               [] check = "panic" -> "panic"
                                               [] OTHER -> "searching"]
           /\ pc' = CASE check = "valid" -> "powret"
                      [] check = "panic" -> "crashed"
                      [] OTHER -> "pow"
    /\ UNCHANGED <<chain, tampers, victim, edits, difficulties, preOk, seqVerdict, seqHashed, conc, ser, ctxVars>>

\* one iteration of the loop of proofOfWork
PowIterate ==
    /\ pc = "pow"
    /\ pow.nonce < MaxNonce
    /\ LET block == [pow.block EXCEPT !.Nonce = pow.nonce]
           hash  == calculateHash(block)
           check == PowCheck(hash, pow.difficulty)
       IN  /\ pow' = [pow EXCEPT !.block = block,
                                 !.hash = hash,
                                 !.calls = @ + 1,
                                 !.nonce = IF check = "invalid" THEN @ + 1 ELSE @,
                                 !.outcome = CASE check = "valid" -> "success"
                                               [] check = "panic" -> "panic"
                                               [] OTHER -> "searching"]
           /\ pc' = CASE check = "valid" -> "powret"
                      [] check = "panic" -> "crashed"
                      [] OTHER -> "pow"
    /\ UNCHANGED <<chain, tampers, victim, edits, difficulties, preOk, seqVerdict, seqHashed, conc, ser, ctxVars>>

\* generateBlock storing the hash but not the nonce
GenerateBlockReturnWithoutNonce ==
    /\ pc = "powret"
    /\ chain' = Append(chain, [pow.block EXCEPT !.Hash = pow.hash, !.Nonce = 0])
    /\ pc' = "idle"
    /\ UNCHANGED <<pow, tampers, victim, edits, difficulties, preOk, seqVerdict, seqHashed, conc, ser, ctxVars>>

\* proofOfWork has returned hash and nonce: generateBlock stores them and
\* main appends the block
GenerateBlockReturn ==
    /\ pc = "powret"
    /\ chain' = Append(chain, [pow.block EXCEPT !.Hash = pow.hash,
                                                !.Nonce = pow.nonce])
    /\ pc' = "idle"
    /\ UNCHANGED <<pow, tampers, victim, edits, difficulties, preOk, seqVerdict, seqHashed, conc, ser, ctxVars>>

\* ------------------------------------------------------------------------
\* Tampering with a built chain (as TestValidateChain_InvalidPoW does with
\* the chain of makeBlockchain: one record is picked and its fields are
\* overwritten in place)
\* ------------------------------------------------------------------------

\* the payload makeBlockchain gives every record after the first
BlockPayload == <<66, 49>>

\* the chain is one makeBlockchain(size, difficulty) builds: every record
\* after the first mined with the same difficulty and a "Block i" payload
MadeByMakeBlockchain ==
    /\ Len(chain) >= 1
    /\ Cardinality(difficulties) <= 1
    /\ \A d \in difficulties : InRange(d)
    /\ \A i \in 2..Len(chain) : chain[i].Data = BlockPayload

\* a digest that differs from h in its first byte
Corrupt(h) == IF Len(h) = 0 THEN <<0>> ELSE [h EXCEPT ![1] = (@ + 1) % 256]

\* the values a field of the record at position v can be overwritten with
EditValues(v, field) ==
    CASE field = "Index"    -> (0..(Len(chain) - 1)) \ {chain[v].Index}
      [] field = "Data"     -> (Payloads \cup {GenesisData}) \ {chain[v].Data}
      [] field = "PrevHash" -> {Corrupt(chain[v].PrevHash)}
      [] field = "Hash"     -> ({Corrupt(chain[v].Hash)}
                                 \cup {chain[k].Hash : k \in 1..Len(chain)})
                               \ {chain[v].Hash}
      [] field = "Nonce"    -> IF chain[v].Nonce = 0 THEN {1} ELSE {0}

EditableFields == {"Index", "Data", "PrevHash", "Hash", "Nonce"}

\* the record at position v with one field overwritten
Edited(block, field, value) ==
    CASE field = "Index"    -> [block EXCEPT !.Index = value]
      [] field = "Data"     -> [block EXCEPT !.Data = value]
      [] field = "PrevHash" -> [block EXCEPT !.PrevHash = value]
      [] field = "Hash"     -> [block EXCEPT !.Hash = value]
      [] field = "Nonce"    -> [block EXCEPT !.Nonce = value]

CanTamper(v) ==
    /\ pc = "idle"
    /\ MadeByMakeBlockchain
    /\ tampers < MaxTampers
    /\ v \in 1..Len(chain)
    /\ victim \in {0, v}

\* invalidBlock.<field> = value
Tamper(v, field, value) ==
    /\ CanTamper(v)
    /\ value \in EditValues(v, field)
    /\ chain' = [chain EXCEPT ![v] = Edited(@, field, value)]
    /\ tampers' = tampers + 1
    /\ victim' = v
    /\ edits' = Append(edits, field)
    /\ preOk' = Verdict(isChainValidCached(chain).ok)
    /\ UNCHANGED <<pc, pow, difficulties, seqVerdict, seqHashed, conc, ser, ctxVars>>

\* invalidBlock.Hash = calculateHash(invalidBlock)
Rehash(v) ==
    /\ CanTamper(v)
    /\ chain' = [chain EXCEPT ![v].Hash = calculateHash(chain[v])]
    /\ tampers' = tampers + 1
    /\ victim' = v
    /\ edits' = Append(edits, "Rehash")
    /\ preOk' = Verdict(isChainValidCached(chain).ok)
    /\ UNCHANGED <<pc, pow, difficulties, seqVerdict, seqHashed, conc, ser, ctxVars>>

\* ------------------------------------------------------------------------
\* Validating the chain: the caller runs isChainValidCached and then
\* isChainValidConcurrent on the same chain
\* ------------------------------------------------------------------------

\* a validation that resets the Nonce of the last record it has seen
ValidateCachedResettingNonce ==
    /\ pc \in {"idle", "again"}
    /\ seqVerdict' = Verdict(isChainValidCached(chain).ok)
    /\ seqHashed' = isChainValidCached(chain).hashed
    /\ pc' = "validated"
    /\ chain' = IF Len(chain) = 0 THEN chain
                ELSE [chain EXCEPT ![Len(chain)].Nonce = 0]
    /\ UNCHANGED <<pow, tampers, victim, edits, difficulties, preOk, conc, ser, ctxVars>>

\* the caller runs isChainValidCached(chain)
ValidateCached ==
    /\ pc \in {"idle", "again"}
    /\ seqVerdict' = Verdict(isChainValidCached(chain).ok)
    /\ seqHashed' = isChainValidCached(chain).hashed
    /\ pc' = "validated"
    /\ UNCHANGED <<chain, pow, tampers, victim, edits, difficulties, preOk, conc, ser, ctxVars>>

\* isChainValidConcurrent fanning out on every chain that is not empty
ConcurrentStartWithoutFallback ==
    /\ pc = "validated"
    /\ IF Len(chain) = 0
       THEN /\ conc' = [NoConc EXCEPT !.verdict = "valid"]
            /\ pc' = "done"
       ELSE IF Len(chain) = 1
       THEN /\ conc' = [NoConc EXCEPT !.fanout = TRUE, !.hashes = 1,
                                      !.verdict = "valid", !.next = 2]
            /\ pc' = "done"
       ELSE /\ conc' = [NoConc EXCEPT
                          !.fanout = TRUE,
                          !.hashes = 1,
                          !.workers = IF Len(chain) < maxWorkers THEN Len(chain)
                                      ELSE maxWorkers,
                          !.capacity = Len(chain) - 1,
                          !.next = 2]
            /\ pc' = "conc"
    /\ UNCHANGED <<chain, pow, tampers, victim, edits, difficulties, preOk, seqVerdict, seqHashed, ser, ctxVars>>

\* isChainValidConcurrent making a results channel that holds one result
ConcurrentStartSmallChannel ==
    /\ pc = "validated"
    /\ IF Len(chain) = 0
       THEN /\ conc' = [NoConc EXCEPT !.verdict = "valid"]
            /\ pc' = "done"
       ELSE IF Len(chain) < ConcurrentThreshold
       THEN /\ conc' = [NoConc EXCEPT
                          !.verdict = Verdict(isChainValidCached(chain).ok),
                          !.hashes = Len(isChainValidCached(chain).hashed)]
            /\ pc' = "done"
       ELSE /\ conc' = [NoConc EXCEPT
                          !.fanout = TRUE,
                          !.hashes = 1,
                          !.workers = IF Len(chain) < maxWorkers THEN Len(chain)
                                      ELSE maxWorkers,
                          !.capacity = 1,
                          !.next = 2]
            /\ pc' = "conc"
    /\ UNCHANGED <<chain, pow, tampers, victim, edits, difficulties, preOk, seqVerdict, seqHashed, ser, ctxVars>>

\* isChainValidConcurrent up to the launch loop: the empty chain, the
\* fallback below the threshold, or the channel and the worker count
ConcurrentStart ==
    /\ pc = "validated"
    /\ IF Len(chain) = 0
       THEN /\ conc' = [NoConc EXCEPT !.verdict = "valid"]
            /\ pc' = "done"
       ELSE IF Len(chain) < ConcurrentThreshold
       THEN /\ conc' = [NoConc EXCEPT
                          !.verdict = Verdict(isChainValidCached(chain).ok),
                          !.hashes = Len(isChainValidCached(chain).hashed)]
            /\ pc' = "done"
       ELSE /\ conc' = [NoConc EXCEPT
                          !.fanout = TRUE,
                          !.hashes = 1,
                          !.workers = IF Len(chain) < maxWorkers THEN Len(chain)
                                      ELSE maxWorkers,
                          !.capacity = Len(chain) - 1,
                          !.next = 2]
            /\ pc' = "conc"
    /\ UNCHANGED <<chain, pow, tampers, victim, edits, difficulties, preOk, seqVerdict, seqHashed, ser, ctxVars>>

\* go validateBlock(i), for the pair at positions next-1, next
Launch ==
    /\ pc = "conc"
    /\ conc.next <= Len(chain)
    /\ conc' = [conc EXCEPT !.live = @ \cup {conc.next}, !.next = @ + 1]
    /\ UNCHANGED <<chain, pc, pow, tampers, victim, edits, difficulties, preOk, seqVerdict, seqHashed, ser, ctxVars>>

\* a launched worker hashes its pair and sends its result; it runs on
\* whether or not the collector has returned
Worker(i) ==
    /\ pc \in {"conc", "done"}
    /\ i \in conc.live
    /\ Len(conc.results) < conc.capacity
    /\ conc' = [conc EXCEPT
                  !.live = @ \ {i},
                  !.sent = @ \cup {i},
                  !.hashes = @ + 2,
                  !.results = Append(@, [index |-> i - 1,
                                         valid |-> validateBlock(chain, i)])]
    /\ UNCHANGED <<chain, pc, pow, tampers, victim, edits, difficulties, preOk, seqVerdict, seqHashed, ser, ctxVars>>

\* the collecting loop returning true at the first valid result
CollectFirstValid ==
    /\ pc = "conc"
    /\ conc.next > Len(chain)
    /\ Len(conc.results) > 0
    /\ LET result == Head(conc.results)
       IN  conc' = [conc EXCEPT !.results = Tail(@), !.received = @ + 1,
                                !.collected = Append(@, result.index),
                                !.verdict = Verdict(result.valid)]
    /\ pc' = "done"
    /\ UNCHANGED <<chain, pow, tampers, victim, edits, difficulties, preOk, seqVerdict, seqHashed, ser, ctxVars>>

\* one iteration of the collecting loop, and the return after the last
Collect ==
    /\ pc = "conc"
    /\ conc.next > Len(chain)
    /\ Len(conc.results) > 0
    /\ LET result == Head(conc.results)
           got    == conc.received + 1
       IN  IF ~result.valid
           THEN /\ conc' = [conc EXCEPT !.results = Tail(@), !.received = got,
                                        !.collected = Append(@, result.index),
                                        !.verdict = "invalid"]
                /\ pc' = "done"
           ELSE /\ conc' = [conc EXCEPT !.results = Tail(@), !.received = got,
                                        !.collected = Append(@, result.index),
                                        !.verdict = IF got = Len(chain) - 1
                                                    THEN "valid" ELSE "none"]
                /\ pc' = IF got = Len(chain) - 1 THEN "done" ELSE "conc"
    /\ UNCHANGED <<chain, pow, tampers, victim, edits, difficulties, preOk, seqVerdict, seqHashed, ser, ctxVars>>

\* both validators have returned; the caller keeps their verdicts and
\* validates the chain, as it is, once more
Revalidate ==
    /\ pc = "done"
    /\ prior.runs < MaxRuns - 1
    /\ prior' = [runs |-> prior.runs + 1, chain |-> chain,
                 seq |-> seqVerdict, conc |-> conc.verdict]
    /\ pc' = "again"
    /\ conc' = NoConc
    /\ UNCHANGED <<chain, pow, tampers, victim, edits, difficulties, preOk,
                   seqVerdict, seqHashed, ser, cancelled, mine, vctx, hsh, pool,
                   orig>>

Next ==
    \/ \E ts \in Timestamps : NewGenesis(ts)
    \/ \E data \in Payloads, ts \in Timestamps, difficulty \in Difficulties :
          GenerateBlockStart(data, ts, difficulty)
    \/ PowIterate
    \/ GenerateBlockReturn
    \/ ValidateCached
    \/ ConcurrentStart
    \/ Launch
    \/ \E i \in conc.live : Worker(i)
    \/ Collect

\* main: the chain is built, then validated
Spec == Init /\ [][Next]_vars

\* the chain is built, records of it are overwritten, then it is validated
NextTamper ==
    \/ Next
    \/ \E v \in 1..Len(chain), field \in EditableFields :
          \E value \in EditValues(v, field) : Tamper(v, field, value)
    \/ \E v \in 1..Len(chain) : Rehash(v)

SpecTamper == Init /\ [][NextTamper]_vars

\* ------------------------------------------------------------------------
\* Serialize on pairs of records
\* ------------------------------------------------------------------------

\* bytes of the Data and PrevHash given to Serialize: zero and 'A'
SerBytes == {0, 65}

\* the byte strings of length n
BytesOfLen(n) == [1..n -> SerBytes]

\* the Data and PrevHash of at most MaxFieldBytes bytes together
SerFields ==
    UNION {BytesOfLen(n) \X BytesOfLen(m) :
               n \in 0..MaxFieldBytes, m \in 0..MaxFieldBytes}

\* the fixed-width fields: the zero value, then one field set at a time
SerHeaders ==
    {[explicitlyInitialized |-> f, Index |-> i, Timestamp |-> t, Nonce |-> n] :
        <<f, i, t, n>> \in {<<FALSE, 0, 0, 0>>, <<TRUE, 0, 0, 0>>,
                            <<FALSE, 1, 0, 0>>, <<FALSE, 0, 1, 0>>,
                            <<FALSE, 0, 0, 1>>, <<FALSE, 256, 0, 0>>}}

SerRecord(h, dp) ==
    [explicitlyInitialized |-> h.explicitlyInitialized, Index |-> h.Index,
     Timestamp |-> h.Timestamp, Nonce |-> h.Nonce,
     Data |-> dp[1], PrevHash |-> dp[2], Hash |-> <<>>]

SerRecords ==
    {SerRecord(h, dp) : h \in SerHeaders,
                        dp \in {x \in SerFields : Len(x[1]) + Len(x[2]) <= MaxFieldBytes}}

InitSer ==
    /\ chain = <<>>
    /\ pc = "idle"
    /\ pow = NoPow
    /\ tampers = 0
    /\ victim = 0
    /\ edits = <<>>
    /\ difficulties = {}
    /\ preOk = "none"
    /\ seqVerdict = "none"
    /\ conc = NoConc
    /\ ser \in {[NoSer EXCEPT !.a = r] : r \in SerRecords}
    /\ cancelled = FALSE
    /\ mine = NoMine
    /\ vctx = NoVctx
    /\ seqHashed = <<>>
    /\ prior = NoPrior
    /\ hsh = NoHsh
    /\ pool = NoPool
    /\ orig = NoOrig

\* Serialize(&a) and Serialize(&b), as the collision test calls them
SerializePair(b) ==
    /\ ~ser.done
    /\ ser' = [ser EXCEPT !.b = b,
                          !.outA = Serialize(ser.a),
                          !.outB = Serialize(b),
                          !.done = TRUE]
    /\ UNCHANGED <<chain, pc, pow, tampers, victim, edits, difficulties, preOk,
                   seqVerdict, seqHashed, conc, ctxVars>>

NextSer == \E b \in SerRecords : SerializePair(b)

SpecSer == InitSer /\ [][NextSer]_vars

\* ------------------------------------------------------------------------
\* Cancellable mining and validation (the context-aware proofOfWork and
\* validateChainConcurrent of PRODUCTION_IMPROVEMENTS.md; their code is not
\* in the repository, the steps follow the specification's description)
\* ------------------------------------------------------------------------

\* difficulties given to the cancellable miner
CtxDifficulties == {0, 1, -1, MaxSupportedDifficulty + 1}

\* the first record, as newGenesisBlock builds it
GenesisRecord(ts) ==
    LET b == [ZeroBlock EXCEPT !.Index = 0, !.Timestamp = ts,
                               !.Data = GenesisData, !.PrevHash = <<>>]
    IN  [b EXCEPT !.Hash = calculateHash(b)]

InitCtx ==
    /\ chain \in {<<GenesisRecord(ts)>> : ts \in Timestamps}
    /\ pc = "idle"
    /\ pow = NoPow
    /\ tampers = 0
    /\ victim = 0
    /\ edits = <<>>
    /\ difficulties = {}
    /\ preOk = "none"
    /\ seqVerdict = "none"
    /\ conc = NoConc
    /\ ser = NoSer
    /\ cancelled = FALSE
    /\ mine = NoMine
    /\ vctx = NoVctx
    /\ seqHashed = <<>>
    /\ prior = NoPrior
    /\ hsh = NoHsh
    /\ pool = NoPool
    /\ orig = NoOrig

ctxFrame ==
    <<pow, victim, edits, difficulties, preOk, seqVerdict, seqHashed, conc, ser,
      prior, hsh, pool, orig>>

\* create_next_record(predecessor, payload, difficulty, cancellation) up to
\* the entry of the search: the difficulty is validated first
MineCtxStart(data, ts, difficulty, expired) ==
    /\ pc = "idle"
    /\ tampers = 0
    /\ Len(chain) < MaxChain
    /\ LET prevBlock == chain[Len(chain)]
           newBlock  == [ZeroBlock EXCEPT !.Index = prevBlock.Index + 1,
                                          !.Timestamp = ts,
                                          !.Data = data,
                                          !.PrevHash = prevBlock.Hash]
       IN  mine' = [NoMine EXCEPT !.block = newBlock,
                                  !.difficulty = difficulty,
                                  !.expiredAtStart = expired,
                                  !.outcome = IF InRange(difficulty) THEN "running"
                                              ELSE "InvalidDifficulty"]
    /\ cancelled' = expired
    /\ pc' = IF InRange(difficulty) THEN "mining" ELSE "idle"
    /\ UNCHANGED <<chain, tampers, vctx, ctxFrame>>

\* the cancellation signal of the running operation fires
Cancel ==
    /\ pc \in {"mining", "validating"}
    /\ ~cancelled
    /\ cancelled' = TRUE
    /\ UNCHANGED <<chain, pc, tampers, mine, vctx, ctxFrame>>

\* the signal is polled every CancelCheckInterval attempts, the first time
\* before nonce 0 is tried
PollDue == mine.nonce % CancelCheckInterval = 0

\* the poll that sees the signal and makes the attempt all the same
MineCtxPollIgnoringSignal ==
    /\ pc = "mining"
    /\ PollDue /\ cancelled
    /\ mine.nonce < MaxNonce
    /\ LET block == [mine.block EXCEPT !.Nonce = mine.nonce]
           hash  == calculateHash(block)
           ok    == PowCheck(hash, mine.difficulty) = "valid"
       IN  /\ mine' = [mine EXCEPT
                         !.block = IF ok THEN [block EXCEPT !.Hash = hash] ELSE block,
                         !.hash = IF ok THEN hash ELSE <<>>,
                         !.calls = @ + 1,
                         !.observed = TRUE,
                         !.nonce = IF ok THEN @ ELSE @ + 1,
                         !.outcome = IF ok THEN "Success" ELSE "running"]
           /\ chain' = IF ok THEN Append(chain, [block EXCEPT !.Hash = hash])
                       ELSE chain
           /\ pc' = IF ok THEN "idle" ELSE "mining"
    /\ UNCHANGED <<cancelled, tampers, vctx, ctxFrame>>

\* the periodic check of the search finds the signal fired: the search
\* stops and reports Cancelled, with no digest and no new record
MineCtxPoll ==
    /\ pc = "mining"
    /\ PollDue /\ cancelled
    /\ mine' = [mine EXCEPT !.outcome = "Cancelled", !.observed = TRUE]
    /\ pc' = "idle"
    /\ UNCHANGED <<chain, cancelled, tampers, vctx, ctxFrame>>

\* one nonce attempt of the cancellable search; on success the record,
\* with its nonce and digest, joins the chain
MineCtxAttempt ==
    /\ pc = "mining"
    /\ ~(PollDue /\ cancelled)
    /\ mine.nonce < MaxNonce
    /\ LET block == [mine.block EXCEPT !.Nonce = mine.nonce]
           hash  == calculateHash(block)
           ok    == PowCheck(hash, mine.difficulty) = "valid"
       IN  /\ mine' = [mine EXCEPT
                         !.block = IF ok THEN [block EXCEPT !.Hash = hash] ELSE block,
                         !.hash = IF ok THEN hash ELSE <<>>,
                         !.calls = @ + 1,
                         !.nonce = IF ok THEN @ ELSE @ + 1,
                         !.outcome = IF ok THEN "Success" ELSE "running"]
           /\ chain' = IF ok THEN Append(chain, [block EXCEPT !.Hash = hash])
                       ELSE chain
           /\ pc' = IF ok THEN "idle" ELSE "mining"
    /\ UNCHANGED <<cancelled, tampers, vctx, ctxFrame>>

\* a record of the chain is overwritten in place between two operations
CorruptCtx(v) ==
    /\ pc = "idle"
    /\ tampers = 0
    /\ Len(chain) >= 2
    /\ chain' = [chain EXCEPT ![v].Data = Append(@, 33)]
    /\ tampers' = 1
    /\ UNCHANGED <<pc, cancelled, mine, vctx, ctxFrame>>

\* validate_concurrent(chain, worker_count, cancellation): one work item
\* per non-first record
ValidateCtxStart(workerCount, expired) ==
    /\ pc = "idle"
    /\ Len(chain) >= 2
    /\ vctx' = [NoVctx EXCEPT !.workerCount = workerCount,
                              !.total = Len(chain) - 1,
                              !.pending = 2..Len(chain),
                              !.busy = [w \in 1..workerCount |-> 0],
                              !.verdict = "running",
                              !.expiredAtStart = expired]
    /\ cancelled' = expired
    /\ pc' = "validating"
    /\ UNCHANGED <<chain, tampers, mine, ctxFrame>>

\* an idle worker of the pool takes the next work item
WorkerTakeCtx(w) ==
    /\ pc = "validating"
    /\ ~cancelled
    /\ vctx.busy[w] = 0
    /\ vctx.pending # {}
    /\ LET i == CHOOSE x \in vctx.pending : \A y \in vctx.pending : x <= y
       IN  vctx' = [vctx EXCEPT !.pending = @ \ {i}, !.busy[w] = i]
    /\ UNCHANGED <<chain, pc, cancelled, tampers, mine, ctxFrame>>

\* a worker checks its pair and hands the result over
WorkerReportCtx(w) ==
    /\ pc = "validating"
    /\ vctx.busy[w] # 0
    /\ vctx' = [vctx EXCEPT !.busy[w] = 0,
                            !.results = @ \cup {<<vctx.busy[w],
                                                  validateBlock(chain, vctx.busy[w])>>}]
    /\ UNCHANGED <<chain, pc, cancelled, tampers, mine, ctxFrame>>

\* one round of the collection step: it takes a result that is in, or sees
\* that the signal has fired; the verdict is given once every pair's result
\* is in
CollectCtx ==
    /\ pc = "validating"
    /\ \/ \E r \in vctx.results :
            LET received   == vctx.received + 1
                anyInvalid == vctx.anyInvalid \/ ~r[2]
                last       == received = vctx.total
            IN  /\ vctx' = [vctx EXCEPT !.results = @ \ {r},
                                        !.received = received,
                                        !.anyInvalid = anyInvalid,
                                        !.verdict = IF last THEN Verdict(~anyInvalid)
                                                    ELSE "running",
                                        !.busy = IF last
                                                 THEN [w \in DOMAIN @ |-> 0] ELSE @]
                /\ pc' = IF last THEN "idle" ELSE "validating"
       \/ /\ cancelled
          /\ vctx' = [vctx EXCEPT !.observed = TRUE, !.verdict = "Cancelled",
                                  !.pending = {}, !.results = {},
                                  !.busy = [w \in DOMAIN @ |-> 0]]
          /\ pc' = "idle"
    /\ UNCHANGED <<chain, cancelled, tampers, mine, ctxFrame>>

NextCtx ==
    \/ \E data \in Payloads, ts \in Timestamps, d \in CtxDifficulties,
          expired \in BOOLEAN : MineCtxStart(data, ts, d, expired)
    \/ Cancel
    \/ MineCtxPoll
    \/ MineCtxAttempt
    \/ \E v \in 2..Len(chain) : CorruptCtx(v)
    \/ \E n \in 1..MaxWorkerCount, expired \in BOOLEAN : ValidateCtxStart(n, expired)
    \/ \E w \in DOMAIN vctx.busy : WorkerTakeCtx(w)
    \/ \E w \in DOMAIN vctx.busy : WorkerReportCtx(w)
    \/ CollectCtx

SpecCtx == InitCtx /\ [][NextCtx]_vars

\* the miner's loop keeps running: a check that is due is made
FairSpecCtx == SpecCtx /\ WF_vars(MineCtxPoll)

\* ------------------------------------------------------------------------
\* The validators on ready-made chains (makeBlockchain of the benchmarks)
\* ------------------------------------------------------------------------

\* makeBlockchain(size): records with Index i, Timestamp i, payload
\* "Block i" and the digest of the predecessor, hashed without mining
RECURSIVE makeBlockchain(_)
makeBlockchain(size) ==
    IF size <= 1
    THEN LET genesis == [ZeroBlock EXCEPT !.Index = 0, !.Timestamp = 0,
                                          !.Data = GenesisData, !.PrevHash = <<>>]
         IN  <<[genesis EXCEPT !.Hash = calculateHash(genesis)]>>
    ELSE LET c     == makeBlockchain(size - 1)
             i     == size - 1
             block == [ZeroBlock EXCEPT !.Index = i, !.Timestamp = i,
                                        !.Data = <<66, 48 + i>>,
                                        !.PrevHash = c[i].Hash]
         IN  Append(c, [block EXCEPT !.Hash = calculateHash(block)])

\* the chain of makeBlockchain, as it is or with the Data or the Hash of
\* one record overwritten
LongChains ==
    LET c == makeBlockchain(LongChain)
    IN  {c} \cup {[c EXCEPT ![v].Data = Append(@, 33)] : v \in 1..LongChain}
            \cup {[c EXCEPT ![v].Hash = Corrupt(@)] : v \in 1..LongChain}

\* the chains of makeBlockchain that are shorter than the threshold, as
\* they are or with the Data of the last record overwritten
ShortChains ==
    UNION {{makeBlockchain(n),
            [makeBlockchain(n) EXCEPT ![n].Data = Append(@, 33)]} :
               n \in 1..(ConcurrentThreshold - 1)}

InitLong ==
    /\ chain \in LongChains \cup ShortChains
    /\ pc = "idle"
    /\ pow = NoPow
    /\ tampers = 0
    /\ victim = 0
    /\ edits = <<>>
    /\ difficulties = {}
    /\ preOk = "none"
    /\ seqVerdict = "none"
    /\ conc = NoConc
    /\ ser = NoSer
    /\ cancelled = FALSE
    /\ mine = NoMine
    /\ vctx = NoVctx
    /\ seqHashed = <<>>
    /\ prior = NoPrior
    /\ hsh = NoHsh
    /\ pool = NoPool
    /\ orig = NoOrig

NextLong ==
    \/ ValidateCached
    \/ ConcurrentStart
    \/ Launch
    \/ \E i \in conc.live : Worker(i)
    \/ Collect

SpecLong == InitLong /\ [][NextLong]_vars

\* the send of worker i with either outcome of its check: enabled exactly
\* when Worker(i) is, and every such step of SpecLong is a step of Worker(i)
WorkerSends(i) ==
    /\ pc \in {"conc", "done"}
    /\ i \in conc.live
    /\ Len(conc.results) < conc.capacity
    /\ \E valid \in BOOLEAN :
          conc' = [conc EXCEPT
                     !.live = @ \ {i},
                     !.sent = @ \cup {i},
                     !.hashes = @ + 2,
                     !.results = Append(@, [index |-> i - 1, valid |-> valid])]
    /\ UNCHANGED <<chain, pc, pow, tampers, victim, edits, difficulties, preOk, seqVerdict, seqHashed, ser, ctxVars>>

\* the scheduler runs every goroutine that can run: a launched worker
\* whose send can proceed does send
FairSpecLong == SpecLong /\ WF_vars(\E i \in conc.live : WorkerSends(i))

\* ------------------------------------------------------------------------
\* The validators run twice on ready-made chains up to the threshold
\* ------------------------------------------------------------------------

\* the chain c with the record at position v overwritten in one of its
\* fields, or given the Index of the first record with the Hash of the
\* first record or with the Hash that goes with the new Index
EditedChains(c, v) ==
    {[c EXCEPT ![v].Index = @ + 7],
     [c EXCEPT ![v].Data = Append(@, 33)],
     [c EXCEPT ![v].PrevHash = Corrupt(@)],
     [c EXCEPT ![v].Hash = Corrupt(@)],
     [c EXCEPT ![v].Nonce = @ + 1],
     [c EXCEPT ![v].Index = c[1].Index, ![v].Hash = c[1].Hash],
     [c EXCEPT ![v].Index = c[1].Index,
               ![v].Hash = calculateHash([c[v] EXCEPT !.Index = c[1].Index])]}

\* the empty chain and the chains of makeBlockchain of up to one record
\* more than the threshold, as they are or with one record edited
ReadyChains ==
    {<<>>} \cup
    UNION {{makeBlockchain(n)} \cup
           UNION {EditedChains(makeBlockchain(n), v) : v \in 1..n} :
               n \in 1..(ConcurrentThreshold + 1)}

InitReady ==
    /\ chain \in ReadyChains
    /\ pc = "idle"
    /\ pow = NoPow
    /\ tampers = 0
    /\ victim = 0
    /\ edits = <<>>
    /\ difficulties = {}
    /\ preOk = "none"
    /\ seqVerdict = "none"
    /\ conc = NoConc
    /\ ser = NoSer
    /\ cancelled = FALSE
    /\ mine = NoMine
    /\ vctx = NoVctx
    /\ seqHashed = <<>>
    /\ prior = NoPrior
    /\ hsh = NoHsh
    /\ pool = NoPool
    /\ orig = NoOrig

NextReady ==
    \/ ValidateCached
    \/ ConcurrentStart
    \/ Launch
    \/ \E i \in conc.live : Worker(i)
    \/ Collect
    \/ Revalidate

SpecReady == InitReady /\ [][NextReady]_vars

\* ------------------------------------------------------------------------
\* calculateHash on single records, both paths
\* ------------------------------------------------------------------------

\* the fixed-width fields of the records that are hashed; -1 makes every
\* byte of the two's complement form 0xFF
HashHeaders ==
    {[explicitlyInitialized |-> f, Index |-> i, Timestamp |-> t, Nonce |-> n] :
        <<f, i, t, n>> \in {<<FALSE, 0, 0, 0>>, <<TRUE, 1, 1700000000, 0>>,
                            <<FALSE, -1, 0, 0>>, <<FALSE, 2, -1, 300>>,
                            <<TRUE, 0, 0, -1>>}}

\* payloads shorter than, as long as and longer than the threshold, with
\* an empty or a one-byte PrevHash
HashFields ==
    UNION {BytesOfLen(n) \X BytesOfLen(m) :
               n \in 0..(StreamThreshold + 1), m \in 0..1}

HashRecords == {SerRecord(h, dp) : h \in HashHeaders, dp \in HashFields}

InitHash ==
    /\ chain = <<>>
    /\ pc = "idle"
    /\ pow = NoPow
    /\ tampers = 0
    /\ victim = 0
    /\ edits = <<>>
    /\ difficulties = {}
    /\ preOk = "none"
    /\ seqVerdict = "none"
    /\ conc = NoConc
    /\ ser = NoSer
    /\ cancelled = FALSE
    /\ mine = NoMine
    /\ vctx = NoVctx
    /\ seqHashed = <<>>
    /\ prior = NoPrior
    /\ hsh \in {[NoHsh EXCEPT !.block = r] : r \in HashRecords}
    /\ pool = NoPool
    /\ orig = NoOrig

\* calculateHash(&block), with what each of the two paths computes for the
\* same record
HashRecord ==
    /\ hsh.path = "none"
    /\ hsh' = [hsh EXCEPT
                 !.fed = StreamFed(hsh.block),
                 !.buf = serializeBlock(hsh.block),
                 !.streamed = calculateHashStreaming(hsh.block),
                 !.buffered = Sha256(serializeBlock(hsh.block)),
                 !.hash = calculateHash(hsh.block),
                 !.path = IF Len(hsh.block.Data) > StreamThreshold
                          THEN "streaming" ELSE "buffered"]
    /\ UNCHANGED <<chain, pc, pow, tampers, victim, edits, difficulties, preOk,
                   seqVerdict, seqHashed, conc, ser, cancelled, mine, vctx, prior,
                   pool, orig>>

NextHash == HashRecord

SpecHash == InitHash /\ [][NextHash]_vars

\* ------------------------------------------------------------------------
\* serializeBlock called concurrently: bufferPool and its buffers.  The
\* callers are the workers of isChainValidConcurrent, each hashing the two
\* records of its pair.
\* ------------------------------------------------------------------------

\* number of goroutines that call serializeBlock at the same time
PoolCallers == 2

\* calculateHash calls of one worker: prevBlock, then currBlock
HashesPerWorker == 2

\* a bytes.Buffer: the underlying array and the length in use; the bytes
\* beyond len are what earlier uses left behind
NewBuffer == [mem |-> <<>>, len |-> 0]

\* buf.Bytes()
BufBytes(buf) == SubSeq(buf.mem, 1, buf.len)

\* buf.Write(bytes): the bytes go in at len, over whatever is there
BufWrite(buf, bytes) ==
    [mem |-> SubSeq(buf.mem, 1, buf.len) \o bytes
                 \o SubSeq(buf.mem, buf.len + Len(bytes) + 1, Len(buf.mem)),
     len |-> buf.len + Len(bytes)]

\* buf.Reset(): the length goes to zero, the array stays
BufReset(buf) == [buf EXCEPT !.len = 0]

\* a byte slice a caller holds: memory of its own, or a view of the first
\* len bytes of a pooled buffer's array
NoSlice == [kind |-> "none", bytes |-> <<>>, buf |-> 0, len |-> 0]

\* what reading the slice gives now
ReadSlice(slice) ==
    IF slice.kind = "view"
    THEN SubSeq(pool.bufs[slice.buf].mem, 1, slice.len)
    ELSE slice.bytes

IdleCaller ==
    [pc |-> "idle", buf |-> 0, calls |-> 0, block |-> ZeroBlock,
     result |-> NoSlice, returned |-> <<>>, of |-> ZeroBlock, stale |-> <<>>]

InitPool ==
    /\ chain = makeBlockchain(PoolCallers + 1)
    /\ pc = "conc"
    /\ pow = NoPow
    /\ tampers = 0
    /\ victim = 0
    /\ edits = <<>>
    /\ difficulties = {}
    /\ preOk = "none"
    /\ seqVerdict = "none"
    /\ conc = NoConc
    /\ ser = NoSer
    /\ cancelled = FALSE
    /\ mine = NoMine
    /\ vctx = NoVctx
    /\ seqHashed = <<>>
    /\ prior = NoPrior
    /\ hsh = NoHsh
    /\ pool = [bufs |-> <<>>, free |-> {},
               callers |-> [w \in 1..PoolCallers |-> IdleCaller]]
    /\ orig = NoOrig

poolFrame ==
    <<chain, pc, pow, tampers, victim, edits, difficulties, preOk, seqVerdict,
      conc, ser, cancelled, mine, vctx, seqHashed, prior, hsh, orig>>

\* serializeBlock(block) of worker w, bufferPool.Get(): a buffer is taken
\* out of the pool, or New makes one (b is then the next unused number)
PoolGet(w, b) ==
    /\ pool.callers[w].pc = "idle"
    /\ pool.callers[w].calls < HashesPerWorker
    /\ \/ b \in pool.free
       \/ b = Len(pool.bufs) + 1 /\ Len(pool.bufs) < PoolCallers
    /\ pool' = [pool EXCEPT
                  !.bufs = IF b \in pool.free THEN @ ELSE Append(@, NewBuffer),
                  !.free = @ \ {b},
                  !.callers[w].pc = "reset",
                  !.callers[w].buf = b,
                  !.callers[w].stale = IF b \in pool.free
                                       THEN BufBytes(pool.bufs[b]) ELSE <<>>,
                  !.callers[w].block = chain[w + pool.callers[w].calls]]
    /\ UNCHANGED poolFrame

\* serializeBlock going on without the Reset
PoolResetSkipped(w) ==
    /\ pool.callers[w].pc = "reset"
    /\ pool' = [pool EXCEPT !.callers[w].pc = "head"]
    /\ UNCHANGED poolFrame

\* buf.Reset()
PoolReset(w) ==
    /\ pool.callers[w].pc = "reset"
    /\ pool' = [pool EXCEPT !.bufs[pool.callers[w].buf] = BufReset(@),
                            !.callers[w].pc = "head"]
    /\ UNCHANGED poolFrame

\* the version byte, the flag byte and the three fixed-width fields
PoolWriteHeader(w) ==
    /\ pool.callers[w].pc = "head"
    /\ LET block == pool.callers[w].block
       IN  pool' = [pool EXCEPT
                      !.bufs[pool.callers[w].buf] =
                          BufWrite(@, <<1>> \o <<FlagByte(block)>>
                                          \o LittleEndian(block.Index, 8)
                                          \o LittleEndian(block.Timestamp, 8)
                                          \o LittleEndian(block.Nonce, 8)),
                      !.callers[w].pc = "fields"]
    /\ UNCHANGED poolFrame

\* the length and the bytes of Data, then of PrevHash
PoolWriteFields(w) ==
    /\ pool.callers[w].pc = "fields"
    /\ LET block == pool.callers[w].block
       IN  pool' = [pool EXCEPT
                      !.bufs[pool.callers[w].buf] =
                          BufWrite(@, LittleEndian(Len(block.Data), 4)
                                          \o block.Data
                                          \o LittleEndian(Len(block.PrevHash), 4)
                                          \o block.PrevHash),
                      !.callers[w].pc = "copy"]
    /\ UNCHANGED poolFrame

\* serializeBlock returning buf.Bytes() itself
PoolCopyAliasing(w) ==
    /\ pool.callers[w].pc = "copy"
    /\ LET buf == pool.bufs[pool.callers[w].buf]
       IN  pool' = [pool EXCEPT
                      !.callers[w].result =
                          [kind |-> "view", bytes |-> <<>>,
                           buf |-> pool.callers[w].buf, len |-> buf.len],
                      !.callers[w].returned = BufBytes(buf),
                      !.callers[w].of = pool.callers[w].block,
                      !.callers[w].pc = "put"]
    /\ UNCHANGED poolFrame

\* result := make([]byte, buf.Len()); copy(result, buf.Bytes())
PoolCopy(w) ==
    /\ pool.callers[w].pc = "copy"
    /\ LET buf == pool.bufs[pool.callers[w].buf]
       IN  pool' = [pool EXCEPT
                      !.callers[w].result =
                          [kind |-> "own", bytes |-> BufBytes(buf),
                           buf |-> 0, len |-> buf.len],
                      !.callers[w].returned = BufBytes(buf),
                      !.callers[w].of = pool.callers[w].block,
                      !.callers[w].pc = "put"]
    /\ UNCHANGED poolFrame

\* return result, and the deferred bufferPool.Put(buf)
PoolPut(w) ==
    /\ pool.callers[w].pc = "put"
    /\ pool' = [pool EXCEPT !.free = @ \cup {pool.callers[w].buf},
                            !.callers[w].buf = 0,
                            !.callers[w].calls = @ + 1,
                            !.callers[w].pc = "idle"]
    /\ UNCHANGED poolFrame

NextPool ==
    \/ \E w \in 1..PoolCallers, b \in 1..PoolCallers : PoolGet(w, b)
    \/ \E w \in 1..PoolCallers : PoolReset(w)
    \/ \E w \in 1..PoolCallers : PoolWriteHeader(w)
    \/ \E w \in 1..PoolCallers : PoolWriteFields(w)
    \/ \E w \in 1..PoolCallers : PoolCopy(w)
    \/ \E w \in 1..PoolCallers : PoolPut(w)

SpecPool == InitPool /\ [][NextPool]_vars

\* ------------------------------------------------------------------------
\* Vocabulary of the properties
\* ------------------------------------------------------------------------

\* bit k (1 is the most significant bit of the first byte) of a digest
Bit(hash, k) == (hash[((k - 1) \div 8) + 1] \div (2 ^ (7 - ((k - 1) % 8)))) % 2

\* the first d bits of the digest are zero
LeadingZeroBits(hash, d) == \A k \in 1..d : Bit(hash, k) = 0

\* hexadecimal digit k (1 is the first character of fmt.Sprintf("%x", hash))
HexDigit(hash, k) ==
    IF k % 2 = 1 THEN hash[(k + 1) \div 2] \div 16 ELSE hash[k \div 2] % 16

\* the hexadecimal form of the digest starts with d characters '0'
LeadingZeroHexDigits(hash, d) == \A k \in 1..d : HexDigit(hash, k) = 0

\* the digest of the record being mined with its Nonce set to n
DigestAtNonce(n) == calculateHash([pow.block EXCEPT !.Nonce = n])

\* the chain was built by newGenesisBlock and generateBlock only, with
\* difficulties of the supported range
HonestChain == tampers = 0 /\ \A d \in difficulties : InRange(d)

\* ------------------------------------------------------------------------
\* The original program (strings for Data, PrevHash and Hash): calculateHash,
\* generateBlock, IsBlockValid and IsChainValid
\* ------------------------------------------------------------------------

\* longest chain given to IsChainValid
OrigChain == 3

\* one character of fmt.Sprintf("%x", ...): '0'..'9', 'a'..'f'
HexChar(d) == IF d < 10 THEN 48 + d ELSE 87 + d

\* fmt.Sprintf("%x", hash)
Sprintfx(hash) == [k \in 1..(2 * Len(hash)) |-> HexChar(HexDigit(hash, k))]

\* calculateHash of the original program: no version and flag bytes, the
\* digest as a hexadecimal string
calculateHashString(block) ==
    Sprintfx(Sha256(LittleEndian(block.Index, 8)
                      \o LittleEndian(block.Timestamp, 8)
                      \o LittleEndian(block.Nonce, 8)
                      \o LittleEndian(Len(block.Data), 4) \o block.Data
                      \o LittleEndian(Len(block.PrevHash), 4) \o block.PrevHash))

\* the chain main builds, with difficulty 0: the genesis block, then
\* generateBlock on the last block (ProofOfWork with an empty prefix returns
\* nonce 0 and the digest at nonce 0)
RECURSIVE makeOrigChain(_)
makeOrigChain(size) ==
    IF size <= 1
    THEN LET genesisBlock == [ZeroBlock EXCEPT !.Index = 0,
                                               !.Timestamp = 1700000000,
                                               !.Data = GenesisData, !.Nonce = 0]
         IN  <<[genesisBlock EXCEPT !.Hash = calculateHashString(genesisBlock)]>>
    ELSE LET c         == makeOrigChain(size - 1)
             prevBlock == c[size - 1]
             newBlock  == [ZeroBlock EXCEPT !.Index = prevBlock.Index + 1,
                                            !.Timestamp = 1700000000,
                                            !.Data = <<66, 48 + size>>,
                                            !.PrevHash = prevBlock.Hash]
         IN  Append(c, [newBlock EXCEPT !.Hash = calculateHashString(newBlock),
                                        !.Nonce = 0])

\* the chain c with the block at position v overwritten in one field, or
\* given another Index together with the Hash that goes with it
OrigEditedChains(c, v) ==
    {[c EXCEPT ![v].Index = @ + 7],
     [c EXCEPT ![v].Index = @ - 1],
     [c EXCEPT ![v].Data = Append(@, 33)],
     [c EXCEPT ![v].PrevHash = Corrupt(@)],
     [c EXCEPT ![v].Hash = Corrupt(@)],
     [c EXCEPT ![v].Nonce = @ + 1],
     [c EXCEPT ![v].Index = c[v].Index + 7,
               ![v].Hash = calculateHashString([c[v] EXCEPT !.Index = @ + 7])]}

OrigChains ==
    {<<>>} \cup
    UNION {{makeOrigChain(n)} \cup
           UNION {OrigEditedChains(makeOrigChain(n), v) : v \in 1..n} :
               n \in 1..OrigChain}

InitOrig ==
    /\ chain \in OrigChains
    /\ pc = "idle"
    /\ pow = NoPow
    /\ tampers = 0
    /\ victim = 0
    /\ edits = <<>>
    /\ difficulties = {}
    /\ preOk = "none"
    /\ seqVerdict = "none"
    /\ conc = NoConc
    /\ ser = NoSer
    /\ cancelled = FALSE
    /\ mine = NoMine
    /\ vctx = NoVctx
    /\ seqHashed = <<>>
    /\ prior = NoPrior
    /\ hsh = NoHsh
    /\ pool = NoPool
    /\ orig = NoOrig

origFrame ==
    <<chain, pow, tampers, victim, edits, difficulties, preOk, seqVerdict, conc,
      ser, cancelled, mine, vctx, seqHashed, prior, hsh, pool>>

\* IsBlockValid without the comparison of the Index fields
IsBlockValidNoIndex(newBlock, prevBlock) ==
    IF newBlock.PrevHash # prevBlock.Hash THEN "PrevHash"
    ELSE IF calculateHashString(newBlock) # newBlock.Hash THEN "Hash"
    ELSE "ok"

\* IsBlockValid: "ok", or the check that returned false
IsBlockValid(newBlock, prevBlock) ==
    IF newBlock.Index # prevBlock.Index + 1 THEN "Index"
    ELSE IF newBlock.PrevHash # prevBlock.Hash THEN "PrevHash"
    ELSE IF calculateHashString(newBlock) # newBlock.Hash THEN "Hash"
    ELSE "ok"

\* IsChainValid(chain), up to the first test of the loop condition
IsChainValidStart ==
    /\ pc = "idle"
    /\ orig' = [orig EXCEPT !.i = 2,
                            !.verdict = IF Len(chain) < 2 THEN "valid" ELSE "none"]
    /\ pc' = IF Len(chain) < 2 THEN "done" ELSE "loop"
    /\ UNCHANGED origFrame

\* one iteration of the loop of IsChainValid, for chain[i] and chain[i-1]
\* (positions counted from 1), and the return after the last
IsChainValidIterate ==
    /\ pc = "loop"
    /\ LET check == IsBlockValid(chain[orig.i], chain[orig.i - 1])
       IN  IF check # "ok"
           THEN /\ orig' = [orig EXCEPT !.verdict = "invalid", !.failed = check]
                /\ pc' = "done"
           ELSE /\ orig' = [orig EXCEPT
                              !.i = @ + 1,
                              !.verdict = IF orig.i + 1 > Len(chain)
                                          THEN "valid" ELSE "none"]
                /\ pc' = IF orig.i + 1 > Len(chain) THEN "done" ELSE "loop"
    /\ UNCHANGED origFrame

NextOrig ==
    \/ IsChainValidStart
    \/ IsChainValidIterate

SpecOrig == InitOrig /\ [][NextOrig]_vars

\* ------------------------------------------------------------------------
\* The two acceptance tests and the two miners side by side: proofOfWork
\* as optimised (bytes) and as first written (hexadecimal string)
\* ------------------------------------------------------------------------

\* strings.Repeat("0", difficulty)
Repeat0(difficulty) == [k \in 1..difficulty |-> 48]

\* strings.HasPrefix(str, prefix)
HasPrefix(str, prefix) ==
    Len(str) >= Len(prefix) /\ SubSeq(str, 1, Len(prefix)) = prefix

\* the test of the original proofOfWork and of pow.ProofOfWork
PrefixTest(hash, difficulty) == HasPrefix(Sprintfx(hash), Repeat0(difficulty))

\* the digest whose hexadecimal form is z characters '0', then the digit v,
\* then the digit f up to the end
DigestOf(z, v, f) ==
    LET digit(k) == IF k <= z THEN 0 ELSE IF k = z + 1 THEN v ELSE f
    IN  [b \in 1..HashSize |-> 16 * digit(2 * b - 1) + digit(2 * b)]

\* digests with every number of leading zero digits, ended by the lowest
\* or the highest digit, followed by zeros or by non-zero digits
TestDigests ==
    {DigestOf(z, v, f) : z \in 0..(2 * HashSize), v \in {1, 15}, f \in {0, 10}}

\* the records given to both miners: the successors of the genesis record
MinedRecords ==
    {[ZeroBlock EXCEPT !.Index = 1, !.Timestamp = ts, !.Data = data,
                       !.PrevHash = GenesisRecord(ts).Hash] :
        ts \in Timestamps, data \in Payloads}

InitPowTest ==
    /\ chain = <<>>
    /\ pc = "idle"
    /\ pow = NoPow
    /\ tampers = 0
    /\ victim = 0
    /\ edits = <<>>
    /\ difficulties = {}
    /\ preOk = "none"
    /\ seqVerdict = "none"
    /\ conc = NoConc
    /\ ser = NoSer
    /\ cancelled = FALSE
    /\ mine = NoMine
    /\ vctx = NoVctx
    /\ seqHashed = <<>>
    /\ prior = NoPrior
    /\ hsh = NoHsh
    /\ pool = NoPool
    /\ orig \in {[NoOrig EXCEPT !.kind = "test", !.hash = h, !.difficulty = d] :
                    h \in TestDigests, d \in 0..MaxSupportedDifficulty}
               \cup
               {[NoOrig EXCEPT !.kind = "mine", !.block = b, !.difficulty = d] :
                    b \in MinedRecords, d \in 0..MaxDifficulty}

\* the loop of the optimised proofOfWork from the given nonce: hash and
\* nonce, or nothing when the search is cut off
RECURSIVE proofOfWork(_, _, _)
proofOfWork(block, difficulty, nonce) ==
    IF nonce > MaxNonce THEN <<>>
    ELSE LET hash == calculateHash([block EXCEPT !.Nonce = nonce])
         IN  IF PowCheck(hash, difficulty) = "valid" THEN <<hash, nonce>>
             ELSE proofOfWork(block, difficulty, nonce + 1)

\* the loop of the original proofOfWork from the given nonce
RECURSIVE proofOfWorkOriginal(_, _, _)
proofOfWorkOriginal(block, difficulty, nonce) ==
    IF nonce > MaxNonce THEN <<>>
    ELSE LET hash == calculateHash([block EXCEPT !.Nonce = nonce])
         IN  IF PrefixTest(hash, difficulty) THEN <<hash, nonce>>
             ELSE proofOfWorkOriginal(block, difficulty, nonce + 1)

\* both tests are applied to one digest
ApplyBothTests ==
    /\ orig.kind = "test"
    /\ orig.bytewise = "none"
    /\ orig' = [orig EXCEPT
                  !.bytewise = PowCheck(orig.hash, orig.difficulty),
                  !.prefixed = IF PrefixTest(orig.hash, orig.difficulty)
                               THEN "valid" ELSE "invalid"]
    /\ UNCHANGED <<pc, origFrame>>

\* both miners are run on one record
RunBothMiners ==
    /\ orig.kind = "mine"
    /\ orig.optimised = <<>>
    /\ orig.original = <<>>
    /\ proofOfWork(orig.block, orig.difficulty, 0) # <<>>
    /\ orig' = [orig EXCEPT
                  !.optimised = proofOfWork(orig.block, orig.difficulty, 0),
                  !.original = proofOfWorkOriginal(orig.block, orig.difficulty, 0)]
    /\ UNCHANGED <<pc, origFrame>>

NextPowTest ==
    \/ ApplyBothTests
    \/ RunBothMiners

SpecPowTest == InitPowTest /\ [][NextPowTest]_vars

\* ------------------------------------------------------------------------
\* C1
\* ------------------------------------------------------------------------

\* C1: every chain built by newGenesisBlock followed by generateBlock calls
\* on the current last record, with any payload and any difficulty of the
\* supported range, is accepted by isChainValidCached.
C1_BuiltChainAccepted ==
    (seqVerdict # "none" /\ HonestChain) => seqVerdict = "valid"

C1_Witness ==
    /\ seqVerdict = "valid"
    /\ HonestChain
    /\ Len(chain) >= 3
    /\ \E i \in 1..Len(chain) : chain[i].Nonce > 0
    /\ \E i \in 1..Len(chain) : chain[i].Data = <<>>

\* ------------------------------------------------------------------------
\* C2
\* ------------------------------------------------------------------------

\* the last record of a 3-record chain mined at d >= 1 had its Nonce set to
\* 0 and its Hash recomputed, and the digest at nonce 0 does not meet d
C2_Scenario ==
    /\ Len(chain) = 3
    /\ victim = 3
    /\ edits = <<"Nonce", "Rehash">>
    /\ chain[3].Nonce = 0
    /\ \E d \in difficulties :
          d >= 1 /\ InRange(d) /\ ~LeadingZeroHexDigits(chain[3].Hash, d)

\* C2: after the last record's Nonce is set to 0 and its Hash recomputed
\* without re-mining, isChainValidCached and isChainValidConcurrent both
\* return false.
C2_UnminedRecordRejected ==
    C2_Scenario =>
        /\ seqVerdict # "none" => seqVerdict = "invalid"
        /\ conc.verdict # "none" => conc.verdict = "invalid"

\* ------------------------------------------------------------------------
\* C3
\* ------------------------------------------------------------------------

\* C3: for every chain and under every interleaving of the workers,
\* isChainValidConcurrent returns what isChainValidCached returns.
C3_ConcurrentAgreesWithCached ==
    conc.verdict # "none" => conc.verdict = seqVerdict

\* ------------------------------------------------------------------------
\* C4
\* ------------------------------------------------------------------------

\* the chain was accepted, then exactly one record's Data, PrevHash or Hash
\* was overwritten with a different value
C4_Scenario ==
    /\ Len(chain) >= 3
    /\ tampers >= 1
    /\ preOk = "valid"
    /\ edits[Len(edits)] \in {"Data", "PrevHash", "Hash"}

\* C4: changing one record's Data, PrevHash or Hash in an accepted chain of
\* length >= 3, at any position, makes isChainValidCached return false.
C4_SingleEditRejected ==
    (seqVerdict # "none" /\ C4_Scenario) => seqVerdict = "invalid"

\* ------------------------------------------------------------------------
\* C5
\* ------------------------------------------------------------------------

\* C5: whenever proofOfWork returns for a difficulty d of the supported
\* range, the first d bits of the returned digest are zero and the digest is
\* the digest of the record with the returned nonce.
C5_ReturnedDigestMeetsDifficulty ==
    (pc = "powret" /\ InRange(pow.difficulty)) =>
        /\ LeadingZeroBits(pow.hash, pow.difficulty)
        /\ pow.hash = DigestAtNonce(pow.nonce)

C5_Witness ==
    /\ pc = "powret"
    /\ pow.difficulty = 1
    /\ pow.nonce > 0
    /\ ~LeadingZeroBits(DigestAtNonce(0), 1)

\* ------------------------------------------------------------------------
\* C6
\* ------------------------------------------------------------------------

\* C6: the returned nonce is the smallest n >= 0 for which the digest of the
\* record with Nonce = n has its first d bits zero; the search tries
\* 0, 1, 2, ... without skipping.
C6_SmallestNonceByBits ==
    (pc = "powret" /\ InRange(pow.difficulty)) =>
        /\ LeadingZeroBits(pow.hash, pow.difficulty)
        /\ \A n \in 0..(pow.nonce - 1) :
              ~LeadingZeroBits(DigestAtNonce(n), pow.difficulty)
        /\ pow.calls = pow.nonce + 1

\* C6, amended: the returned nonce is the smallest n >= 0 for which the
\* hexadecimal form of the digest of the record with Nonce = n starts with d
\* zero digits (its first 4*d bits are zero); the search tries 0, 1, 2, ...
\* without skipping.
C6_SmallestNonceByHexDigits ==
    (pc = "powret" /\ InRange(pow.difficulty)) =>
        /\ LeadingZeroHexDigits(pow.hash, pow.difficulty)
        /\ \A n \in 0..(pow.nonce - 1) :
              ~LeadingZeroHexDigits(DigestAtNonce(n), pow.difficulty)
        /\ pow.calls = pow.nonce + 1

\* a nonce below the returned one already had d zero bits, but not d zero
\* hexadecimal digits
C6_Witness ==
    /\ pc = "powret"
    /\ pow.difficulty >= 1
    /\ InRange(pow.difficulty)
    /\ \E n \in 0..(pow.nonce - 1) :
          LeadingZeroBits(DigestAtNonce(n), pow.difficulty)

\* ------------------------------------------------------------------------
\* C7
\* ------------------------------------------------------------------------

\* C7: with difficulty 0 proofOfWork computes exactly one hash and returns
\* nonce 0 with the digest of the record with Nonce = 0.
C7_DifficultyZeroImmediate ==
    /\ (pc = "pow" /\ pow.difficulty = 0) => pow.calls = 0
    /\ (pc = "powret" /\ pow.difficulty = 0) =>
          /\ pow.calls = 1
          /\ pow.nonce = 0
          /\ pow.block.Nonce = 0
          /\ pow.hash = DigestAtNonce(0)

\* difficulty 0 returned a digest that no difficulty >= 1 would accept
C7_Witness ==
    /\ pc = "powret"
    /\ pow.difficulty = 0
    /\ pow.calls = 1
    /\ ~LeadingZeroHexDigits(pow.hash, 1)

\* ------------------------------------------------------------------------
\* C8
\* ------------------------------------------------------------------------

\* C8: a mining request with a difficulty below zero or above the supported
\* maximum is reported as InvalidDifficulty: no nonce search is started and
\* no digest and nonce are returned as a success.
C8_InvalidDifficultyReported ==
    (pow.outcome # "none" /\ ~InRange(pow.difficulty)) =>
        /\ pow.outcome = "invalid_difficulty"
        /\ pow.calls = 0
        /\ pc # "powret"

\* ------------------------------------------------------------------------
\* C10
\* ------------------------------------------------------------------------

\* the fields Serialize writes
SerializedFields(r) ==
    <<r.explicitlyInitialized, r.Index, r.Timestamp, r.Nonce, r.Data, r.PrevHash>>

\* C10: two records that differ in the flag, Index, Timestamp, Nonce, Data
\* or PrevHash serialize to different byte strings.
C10_SerializeInjective ==
    (ser.done /\ SerializedFields(ser.a) # SerializedFields(ser.b)) =>
        ser.outA # ser.outB

\* one record's Data is the other's PrevHash followed by its Data, with a
\* zero byte in it
C10_Witness ==
    /\ ser.done
    /\ ser.a.PrevHash # <<>>
    /\ ser.b.PrevHash = ser.a.PrevHash
    /\ ser.b.Data = ser.a.PrevHash \o ser.a.Data
    /\ \E k \in 1..Len(ser.a.Data) : ser.a.Data[k] = 0
    /\ ser.outA # ser.outB

\* ------------------------------------------------------------------------
\* C9
\* ------------------------------------------------------------------------

\* the digest of the miner's candidate record at nonce 0 misses the target
NonceZeroMisses ==
    PowCheck(calculateHash([mine.block EXCEPT !.Nonce = 0, !.Hash = <<>>]),
             mine.difficulty) = "invalid"

\* mining was started with an expired signal on a record nonce 0 does not
\* solve
ExpiredMiningStarted ==
    /\ pc = "mining"
    /\ mine.expiredAtStart
    /\ mine.nonce = 0
    /\ NonceZeroMisses

C11_StreamingEqualsBuffered ==
    hsh.path # "none" =>
        /\ hsh.fed = hsh.buf
        /\ hsh.streamed = hsh.buffered
        /\ hsh.hash = hsh.buffered
        /\ hsh.hash = hsh.streamed

\* a record whose payload is longer than the threshold went down the
\* streaming path, with a negative fixed-width field and a PrevHash
C11_Witness ==
    /\ hsh.path = "streaming"
    /\ Len(hsh.block.Data) = StreamThreshold + 1
    /\ hsh.block.Timestamp < 0
    /\ hsh.block.PrevHash # <<>>
    /\ hsh.hash = hsh.buffered

\* ------------------------------------------------------------------------
\* C12
\* ------------------------------------------------------------------------

\* the step is one of a validation: it ends inside or at the return of
\* isChainValidCached or isChainValidConcurrent
ValidationStep == pc' \in {"validated", "conc", "done", "again"}

\* C12: no step of isChainValidCached or isChainValidConcurrent changes a
\* field of a record or the order of the chain, and a second validation of
\* the untouched chain returns the verdicts of the first.
C12_ValidationFrame ==
    /\ [][ValidationStep => chain' = chain]_vars
    /\ []((prior.runs >= 1 /\ seqVerdict # "none" /\ pc # "again") =>
              (chain = prior.chain /\ seqVerdict = prior.seq))
    /\ []((prior.runs >= 1 /\ conc.verdict # "none") =>
              (chain = prior.chain /\ conc.verdict = prior.conc))

\* an edited chain was rejected twice by the fan-out
C12_Witness ==
    /\ prior.runs >= 1
    /\ pc = "done"
    /\ conc.fanout
    /\ chain \notin {makeBlockchain(Len(chain))}
    /\ conc.verdict = "invalid"
    /\ prior.conc = "invalid"
    /\ chain = prior.chain

\* ------------------------------------------------------------------------
\* C13
\* ------------------------------------------------------------------------

\* C13: on the empty chain and on every chain of one record, whatever its
\* fields, isChainValidCached and isChainValidConcurrent return true and
\* calculateHash is not called.
C13_ShortChainsValid ==
    Len(chain) <= 1 =>
        /\ seqVerdict # "none" => (seqVerdict = "valid" /\ seqHashed = <<>>)
        /\ conc.verdict # "none" => (conc.verdict = "valid" /\ conc.hashes = 0)

\* both validators accepted a single record whose fields were overwritten
C13_Witness ==
    /\ Len(chain) = 1
    /\ chain[1].Hash # calculateHash(chain[1])
    /\ seqVerdict = "valid"
    /\ conc.verdict = "valid"
    /\ conc.hashes = 0

\* ------------------------------------------------------------------------
\* C14
\* ------------------------------------------------------------------------

\* C14: the record newGenesisBlock returns has Index 0, an empty PrevHash,
\* Nonce 0 and a Hash equal to calculateHash of the record; it is not mined.
C14_GenesisRecord ==
    Len(chain) >= 1 =>
        /\ chain[1].Index = 0
        /\ chain[1].PrevHash = <<>>
        /\ chain[1].Nonce = 0
        /\ chain[1].Data = GenesisData
        /\ chain[1].Hash = calculateHash(chain[1])

\* newGenesisBlock has just returned a record whose digest meets no
\* difficulty above 0
C14_Witness ==
    /\ Len(chain) = 1
    /\ pc = "idle"
    /\ pow = NoPow
    /\ Len(chain[1].Hash) = HashSize
    /\ ~LeadingZeroHexDigits(chain[1].Hash, 1)

\* ------------------------------------------------------------------------
\* C15
\* ------------------------------------------------------------------------

\* C15: in every chain built by newGenesisBlock and generateBlock the record
\* at position i has Index i, every record's Hash is calculateHash of the
\* record with its final Nonce, and every record after the first has the
\* digest of its predecessor, computed from the predecessor's fields, as
\* PrevHash.
C15_BuiltChainInvariants ==
    \A i \in 1..Len(chain) :
        /\ chain[i].Index = i - 1
        /\ chain[i].Hash = calculateHash(chain[i])
        /\ i >= 2 => chain[i].PrevHash = calculateHash(chain[i - 1])

\* a chain of three records, one of them mined to a nonce above 0
C15_Witness ==
    /\ Len(chain) = 3
    /\ pc = "idle"
    /\ \E i \in 2..3 : chain[i].Nonce > 0
    /\ chain[3].PrevHash = chain[2].Hash

\* ------------------------------------------------------------------------
\* C16
\* ------------------------------------------------------------------------

\* C16: one run of isChainValidCached gives no record of the chain to
\* calculateHash more than once.
C16_HashedAtMostOnce ==
    seqVerdict # "none" =>
        /\ Len(seqHashed) <= Len(chain)
        /\ \A j, k \in 1..Len(seqHashed) :
              j # k => seqHashed[j] # seqHashed[k]

\* an intact chain of three records was accepted: the second record was
\* the current record of one pair and the previous record of the next, and
\* was hashed once
C16_Witness ==
    /\ chain = makeBlockchain(3)
    /\ seqVerdict = "valid"
    /\ seqHashed = <<1, 2, 3>>

\* ------------------------------------------------------------------------
\* C17
\* ------------------------------------------------------------------------

\* the pairwise link-and-digest check with each digest recomputed from the
\* record at its position
UncachedVerdict == Verdict(\A i \in 2..Len(chain) : validateBlock(chain, i))

\* C17: for every chain, repeated or non-consecutive Index values included,
\* isChainValidCached returns what the same check returns with each digest
\* recomputed from the record.
C17_CacheIsTransparent ==
    seqVerdict # "none" => seqVerdict = UncachedVerdict

\* ------------------------------------------------------------------------
\* C18
\* ------------------------------------------------------------------------

\* C18: during isChainValidConcurrent no more than maxWorkers worker tasks
\* are live at the same time, whatever the length of the chain.
C18_LiveWorkersBounded ==
    conc.fanout => Cardinality(conc.live) <= maxWorkers

\* ------------------------------------------------------------------------
\* C19
\* ------------------------------------------------------------------------

\* some pair of adjacent records fails its link or digest check
SomePairFails == \E i \in 2..Len(chain) : ~validateBlock(chain, i)

\* the collector has received exactly one result for every pair
OneResultPerPair ==
    /\ Len(conc.collected) = Len(chain) - 1
    /\ \A i \in 1..(Len(chain) - 1) :
          Cardinality({k \in 1..Len(conc.collected) : conc.collected[k] = i}) = 1

\* C19: isChainValidConcurrent returns true only after it has received
\* exactly one result for each pair, all valid, and returns false exactly
\* when some pair fails its check, in whatever order the results arrive.
C19_OneResultPerPairAlways ==
    /\ conc.verdict = "valid" => (OneResultPerPair /\ ~SomePairFails)
    /\ conc.verdict = "invalid" => SomePairFails
    /\ (conc.verdict # "none" /\ SomePairFails) => conc.verdict = "invalid"

\* C19, amended: when isChainValidConcurrent fans out (the chain is at or
\* above the threshold), it returns true only after it has received exactly
\* one result for each pair, all valid, and returns false exactly when some
\* pair fails its check, in whatever order the results arrive.
C19_OneResultPerPairOnFanout ==
    conc.fanout =>
        /\ conc.verdict = "valid" => (OneResultPerPair /\ ~SomePairFails)
        /\ conc.verdict = "invalid" => SomePairFails
        /\ (conc.verdict # "none" /\ SomePairFails) => conc.verdict = "invalid"
        /\ \A j, k \in 1..Len(conc.collected) :
              j # k => conc.collected[j] # conc.collected[k]

\* the fan-out accepted the chain after the results came in against the
\* order of the launches
C19_Witness ==
    /\ conc.fanout
    /\ conc.verdict = "valid"
    /\ Len(chain) = LongChain
    /\ conc.collected[1] = Len(chain) - 1
    /\ conc.collected[Len(chain) - 1] = 1

\* ------------------------------------------------------------------------
\* C20
\* ------------------------------------------------------------------------

\* a worker has been started
WorkerStarted == conc.live # {} \/ conc.sent # {} \/ conc.next > 2

\* C20: on a chain shorter than the threshold isChainValidConcurrent starts
\* no worker and returns what isChainValidCached returns; it fans out only
\* on chains of at least the threshold.
C20_FallbackBelowThreshold ==
    /\ (conc.verdict # "none" /\ Len(chain) < ConcurrentThreshold) =>
          /\ ~conc.fanout
          /\ ~WorkerStarted
          /\ conc.collected = <<>>
          /\ conc.verdict = Verdict(isChainValidCached(chain).ok)
    /\ (conc.fanout \/ WorkerStarted) => Len(chain) >= ConcurrentThreshold

\* an edited chain one record short of the threshold was rejected without
\* a worker
C20_Witness ==
    /\ Len(chain) = ConcurrentThreshold - 1
    /\ chain \notin {makeBlockchain(Len(chain))}
    /\ pc = "done"
    /\ conc.verdict = "invalid"
    /\ ~conc.fanout
    /\ conc.hashes >= 1

\* ------------------------------------------------------------------------
\* C21
\* ------------------------------------------------------------------------

\* the callers that hold a buffer
Holders == {w \in DOMAIN pool.callers : pool.callers[w].buf # 0}

\* C21: with several callers in serializeBlock at once, no pooled buffer is
\* held by two callers or is in the pool while it is held, a held buffer
\* contains nothing but the bytes its holder has written since the Reset,
\* and a slice that was returned reads as it did at the return whatever is
\* done to the buffers afterwards.
C21_BuffersExclusiveAndCopied ==
    /\ \A w, x \in Holders : w # x => pool.callers[w].buf # pool.callers[x].buf
    /\ \A w \in Holders : pool.callers[w].buf \notin pool.free
    /\ \A w \in Holders :
          pool.callers[w].pc \in {"head", "fields", "copy", "put"} =>
              BufBytes(pool.bufs[pool.callers[w].buf]) =
                  SubSeq(Serialize(pool.callers[w].block), 1,
                         pool.bufs[pool.callers[w].buf].len)
    /\ \A w \in DOMAIN pool.callers :
          pool.callers[w].result.kind # "none" =>
              ReadSlice(pool.callers[w].result) = pool.callers[w].returned

\* two callers are writing at the same time, one of them into the buffer
\* whose bytes the other caller was given by an earlier call
C21_Witness ==
    \E w, x \in Holders :
        /\ w # x
        /\ pool.callers[w].pc = "fields"
        /\ pool.callers[x].pc = "fields"
        /\ pool.callers[x].result.kind = "own"
        /\ pool.callers[w].stale = pool.callers[x].returned
        /\ pool.callers[w].block # pool.callers[x].of

\* ------------------------------------------------------------------------
\* C27
\* ------------------------------------------------------------------------

\* the callers that have been given a result
Returned == {w \in DOMAIN pool.callers : pool.callers[w].result.kind # "none"}

\* C27: whatever earlier calls left in the pooled buffer, serializeBlock
\* returns the bytes block.Serialize gives for the record, and two calls on
\* records with the same fields give the same bytes and the same digest.
C27_PooledEqualsUnpooled ==
    /\ \A w \in Returned :
          pool.callers[w].returned = Serialize(pool.callers[w].of)
    /\ \A w, x \in Returned :
          pool.callers[w].of = pool.callers[x].of =>
              /\ pool.callers[w].returned = pool.callers[x].returned
              /\ Sha256(pool.callers[w].returned) = Sha256(pool.callers[x].returned)

\* the same record was serialized by two callers, once in a new buffer and
\* once in a buffer that held the serialization of another record
C27_Witness ==
    \E w, x \in Returned :
        /\ w # x
        /\ pool.callers[w].of = pool.callers[x].of
        /\ pool.callers[x].stale = <<>>
        /\ pool.callers[w].stale # <<>>
        /\ pool.callers[w].stale # pool.callers[w].returned
        /\ pool.callers[w].returned = pool.callers[x].returned

\* ------------------------------------------------------------------------
\* C22
\* ------------------------------------------------------------------------

\* the three conditions on the pair at positions i-1, i
PairConsistent(i) ==
    /\ chain[i].Index = chain[i - 1].Index + 1
    /\ chain[i].PrevHash = chain[i - 1].Hash
    /\ chain[i].Hash = calculateHashString(chain[i])

\* C22: IsChainValid returns true exactly when, for every adjacent pair, the
\* later block's Index is the earlier block's Index plus one, its PrevHash
\* is the earlier block's stored Hash and its Hash is calculateHash of
\* itself; a chain with a non-consecutive Index is rejected.
C22_IsChainValidExact ==
    orig.verdict # "none" =>
        /\ orig.verdict = "valid" <=> \A i \in 2..Len(chain) : PairConsistent(i)
        /\ (\E i \in 2..Len(chain) : chain[i].Index # chain[i - 1].Index + 1)
              => orig.verdict = "invalid"

\* a chain whose links and digests are all consistent was rejected for the
\* Index of its last block alone
C22_Witness ==
    /\ Len(chain) = OrigChain
    /\ orig.verdict = "invalid"
    /\ orig.failed = "Index"
    /\ orig.i = Len(chain)
    /\ \A i \in 2..Len(chain) :
          /\ chain[i].PrevHash = chain[i - 1].Hash
          /\ chain[i].Hash = calculateHashString(chain[i])

\* ------------------------------------------------------------------------
\* C23
\* ------------------------------------------------------------------------

\* every record after the first carries the digest of its predecessor as
\* PrevHash and its own digest as Hash
LinksAndDigestsConsistent == \A i \in 2..Len(chain) : validateBlock(chain, i)

\* the Hash of some record after the first meets no difficulty above 0
SomeHashMeetsNoTarget ==
    \E i \in 2..Len(chain) : ~LeadingZeroHexDigits(chain[i].Hash, 1)

\* no two records of the chain have the same Index, as in every chain that
\* generateBlock or makeBlockchain builds
DistinctIndexes ==
    \A i, j \in 1..Len(chain) : i # j => chain[i].Index # chain[j].Index

TamperedPositions ==
    {v \in 1..Len(chain) : chain[v] # makeBlockchain(Len(chain))[v]}

\* the first pair of the loop that contains position v: the pair examined
\* at i = v, or at i = 2 for the first record
FirstPairWith(v) == IF v = 1 THEN 2 ELSE v

\* C24: isChainValidCached examines the pairs in increasing order and
\* returns false at the first pair whose link or digest check fails, after
\* which no later record is hashed; so a tamper is reported at or before the
\* first pair that contains the tampered record.
C24_ReportedAtFirstTamperedPair ==
    (seqVerdict # "none" /\ Len(chain) >= 2) =>
        LET r == isChainValidCached(chain)
        IN  /\ \A j, k \in 1..Len(r.hashed) : j < k => r.hashed[j] < r.hashed[k]
            /\ ~r.ok => \A j \in 1..Len(r.hashed) : r.hashed[j] <= r.at
            /\ \A v \in TamperedPositions :
                  /\ seqVerdict = "invalid"
                  /\ r.at <= FirstPairWith(v)

\* ------------------------------------------------------------------------
\* C25
\* ------------------------------------------------------------------------

\* the fields of the record other than Nonce
FieldsButNonce(block) ==
    <<block.Index, block.Timestamp, block.Data, block.PrevHash, block.Hash,
      block.explicitlyInitialized>>

\* C25: no step of proofOfWork changes a field of the record other than
\* Nonce, and when it returns the record's Nonce is the returned nonce and
\* the returned hash is calculateHash of the record as it is left.
C25_PowChangesOnlyNonce ==
    /\ [][pc = "pow" => FieldsButNonce(pow'.block) = FieldsButNonce(pow.block)]_vars
    /\ [](pc = "powret" =>
             /\ pow.block.Nonce = pow.nonce
             /\ pow.hash = calculateHash(pow.block))

\* proofOfWork returned after several attempts on a record with a payload
\* and a predecessor
C25_Witness ==
    /\ pc = "powret"
    /\ pow.nonce >= 2
    /\ pow.calls = pow.nonce + 1
    /\ pow.block.Data # <<>>
    /\ Len(pow.block.PrevHash) = HashSize
    /\ pow.block.Index = 2

\* ------------------------------------------------------------------------
\* C26
\* ------------------------------------------------------------------------

\* byte k (1 is the least significant) of the two's complement form of v
RECURSIVE ByteOf(_, _)
ByteOf(v, k) == IF k = 1 THEN v % 256 ELSE ByteOf(v \div 256, k - 1)

\* out is laid out as the format prescribes for the record r
LaidOut(r, out) ==
    LET d == Len(r.Data)
        p == Len(r.PrevHash)
    IN  /\ Len(out) = 34 + d + p
        /\ out[1] = 1
        /\ out[2] = IF r.explicitlyInitialized THEN 255 ELSE 0
        /\ \A k \in 1..8 :
              /\ out[2 + k] = ByteOf(r.Index, k)
              /\ out[10 + k] = ByteOf(r.Timestamp, k)
              /\ out[18 + k] = ByteOf(r.Nonce, k)
        /\ \A k \in 1..4 : out[26 + k] = ByteOf(d, k)
        /\ \A k \in 1..d : out[30 + k] = r.Data[k]
        /\ \A k \in 1..4 : out[30 + d + k] = ByteOf(p, k)
        /\ \A k \in 1..p : out[34 + d + k] = r.PrevHash[k]

\* C26: Serialize outputs the byte 0x01, the flag byte, Index, Timestamp
\* and Nonce as 8 little-endian bytes each, the 4-byte little-endian length
\* of Data and Data, the 4-byte little-endian length of PrevHash and
\* PrevHash; 34 + len(Data) + len(PrevHash) bytes in all.
C26_SerializeLayout ==
    ser.done =>
        /\ LaidOut(ser.a, ser.outA)
        /\ LaidOut(ser.b, ser.outB)
        /\ LaidOut(ser.b, serializeBlock(ser.b))

\* a record with an Index of two significant bytes, a payload and a
\* predecessor digest, and a flagged record with a Timestamp
C26_Witness ==
    /\ ser.done
    /\ ser.a.Index = 256
    /\ ser.outA[4] = 1
    /\ Len(ser.a.Data) >= 1
    /\ Len(ser.a.PrevHash) >= 1
    /\ Len(ser.outA) = 34 + MaxFieldBytes
    /\ ser.b.Timestamp = 1
    /\ ser.outB[11] = 1

\* ------------------------------------------------------------------------
\* C28
\* ------------------------------------------------------------------------

\* C28: for every digest and every difficulty in 0..64 the byte-wise test
\* of the optimised proofOfWork accepts exactly the digests whose
\* hexadecimal form starts with `difficulty` characters '0', and never
\* indexes outside the digest; both miners return the same hash and nonce
\* for the same record.
C28_BytewiseEqualsPrefix ==
    /\ orig.bytewise # "none" =>
          /\ orig.bytewise \in {"valid", "invalid"}
          /\ orig.bytewise = orig.prefixed
          /\ orig.bytewise = "valid" <=>
                LeadingZeroHexDigits(orig.hash, orig.difficulty)
    /\ orig.optimised # <<>> => orig.optimised = orig.original

\* an odd difficulty decided by the half byte: the digest has difficulty - 1
\* zero digits and ends with the byte 0x10, the smallest byte the half-byte
\* test rejects
C28_Witness ==
    /\ orig.kind = "test"
    /\ orig.bytewise = "invalid"
    /\ orig.difficulty = MaxSupportedDifficulty - 1
    /\ LeadingZeroHexDigits(orig.hash, orig.difficulty - 1)
    /\ orig.hash[HashSize] = 16

\* ------------------------------------------------------------------------
\* C29
\* ------------------------------------------------------------------------

\* values the Hash field of the first record can be given: none, its
\* digest, a corrupted digest, the Hash of the last record
FirstHashValues ==
    {<<>>, calculateHash(chain[1]), Corrupt(calculateHash(chain[1])),
     chain[Len(chain)].Hash}

\* the chain with the Hash of its first record replaced
WithFirstHash(h) == [chain EXCEPT ![1].Hash = h]

\* C29: the verdict of isChainValidCached is the same for every chain that
\* differs from the validated one only in the Hash field of the first
\* record.
C29_FirstHashIgnored ==
    (seqVerdict # "none" /\ Len(chain) >= 1) =>
        \A h \in FirstHashValues :
            Verdict(isChainValidCached(WithFirstHash(h)).ok) = seqVerdict

\* a chain whose first record carries a Hash that is not its digest was
\* accepted, as it is with the digest in its place
C29_Witness ==
    /\ Len(chain) >= 3
    /\ chain[1].Hash # calculateHash(chain[1])
    /\ seqVerdict = "valid"
    /\ isChainValidCached(WithFirstHash(calculateHash(chain[1]))).ok

\* ------------------------------------------------------------------------
\* C30
\* ------------------------------------------------------------------------

\* C30: in the fan-out of isChainValidConcurrent the channel has room for
\* the result of every launched worker, so a send never blocks; a worker
\* sends one result and is gone, and every launched worker gets there,
\* also after the collector has returned false.
C30_WorkersSendOnceAndEnd ==
    /\ [](conc.fanout =>
             /\ conc.capacity = Len(chain) - 1
             /\ conc.live \cap conc.sent = {}
             /\ Len(conc.results) + conc.received = Cardinality(conc.sent)
             /\ Cardinality(conc.sent) + Cardinality(conc.live) <= conc.capacity)
    /\ [](conc.live # {} => Len(conc.results) < conc.capacity)
    /\ [][conc.sent \subseteq conc'.sent]_vars
    /\ \A i \in 2..LongChain : (i \in conc.live) ~> (i \in conc.sent)

\* the collector returned false on the first result it received, and every
\* worker has sent its result: the others are still in the channel
C30_Witness ==
    /\ pc = "done"
    /\ conc.fanout
    /\ conc.verdict = "invalid"
    /\ conc.received = 1
    /\ conc.live = {}
    /\ conc.sent = 2..Len(chain)
    /\ Len(conc.results) = Len(chain) - 2
    /\ Len(chain) = LongChain

====
